---------------------------- MODULE Spec2Model ----------------------------
(***************************************************************************)
(* eDNA analysis pipeline: the FileUpload validator, the Index page, the   *)
(* DataProcessor pipeline (preprocess, classify, cluster, biodiversity)    *)
(* and the ExportResults report generators.                                *)
(*                                                                         *)
(* Strings are sequences of one-character strings.  A nullable value is a  *)
(* sequence of length 0 (null) or 1.  Depths are kept in tenths of a       *)
(* metre, confidences and indices in thousandths.                          *)
(***************************************************************************)
EXTENDS Integers, Sequences, FiniteSets, Bags, TLC

VARIABLES
  \* FileUpload component
  fileInput,          \* the file held by the file input element: <<>> or <<name>>
  uploadIsProcessing, \* FileUpload.isProcessing
  uploadProgress,     \* FileUpload.uploadProgress
  validationErrors,   \* FileUpload.validationErrors
  previewData,        \* FileUpload.previewData: <<>> (null) or <<rows>>
  parses,             \* Papa.parse calls in flight: a bag of [kind, file]
  \* Index page
  pageStep,           \* Index.currentStep
  uploadedData,       \* Index.uploadedData: <<>> (null) or <<records>>
  processedData,      \* Index.processedData: <<>> (null) or <<bundle>>
  uploadedFrom,       \* the file whose records onDataUpload handed over last: <<>> or <<name>>
  exported,           \* ExportResults: exportOptions (abundanceMatrix, taxonomyResults,
                      \* biodiversityMetrics), and the tables the last handleExport handed
                      \* to downloadCSV: downloads (abundance-matrix.csv), taxonomyData
                      \* (taxonomy-results.csv), biodiversityData (biodiversity-metrics.csv)
  dashboard,          \* BiodiversityDashboard: selectedLocation, selectedDepthRange
  \* DataProcessor component
  isProcessing, currentStep, overallProgress, steps, processedResults,
  \* the startProcessing call in progress
  pc,                 \* its position
  run,                \* its captured props and locals
  timers,             \* setTimeout callbacks pending: a sequence of bundles
  toast               \* the last toast of DataProcessor: <<>> or <<[title, description, n]>>

uploadVars == <<fileInput, uploadIsProcessing, uploadProgress, validationErrors,
                previewData, parses>>
indexVars == <<pageStep, uploadedData, processedData, uploadedFrom, exported, dashboard>>
procVars == <<isProcessing, currentStep, overallProgress, steps, processedResults>>
runVars == <<pc, run, timers, toast>>
vars == <<uploadVars, indexVars, procVars, runVars>>

---------------------------------------------------------------------------
(* Strings and numbers as JavaScript reads them *)

undefined == <<"undefined">>

Some(x) == <<x>>

Min(a, b) == IF a <= b THEN a ELSE b

Max(a, b) == IF a >= b THEN a ELSE b

Abs(x) == IF x < 0 THEN -x ELSE x

IsSpace(c) == c \in {" ", "\t"}

Digits == <<"0", "1", "2", "3", "4", "5", "6", "7", "8", "9">>

IsDigit(c) == \E d \in 1..10 : Digits[d] = c

DigitValue(c) == (CHOOSE d \in 1..10 : Digits[d] = c) - 1

RECURSIVE TrimStart(_)
TrimStart(s) ==
  IF s # <<>> /\ IsSpace(Head(s)) THEN TrimStart(Tail(s)) ELSE s

RECURSIVE TrimEnd(_)
TrimEnd(s) ==
  IF s # <<>> /\ IsSpace(s[Len(s)]) THEN TrimEnd(SubSeq(s, 1, Len(s) - 1)) ELSE s

\* String.prototype.trim
Trim(s) == TrimEnd(TrimStart(s))

\* row.field?.toString().trim()
ToStringTrim(v) == IF v = undefined THEN undefined ELSE Trim(v)

\* !s for a string or undefined
Falsy(s) == s = undefined \/ s = <<>>

UpperOf(c) ==
  CASE c = "a" -> "A" [] c = "t" -> "T" [] c = "c" -> "C" [] c = "g" -> "G"
    [] c = "n" -> "N" [] c = "z" -> "Z" [] OTHER -> c

\* String.prototype.toUpperCase
ToUpperCase(s) == [k \in 1..Len(s) |-> UpperOf(s[k])]

\* /^[ATCGN]+$/i.test(s)
IsDnaString(s) ==
  /\ s # <<>>
  /\ \A k \in 1..Len(s) : UpperOf(s[k]) \in {"A", "T", "C", "G", "N"}

\* the longest prefix of s made of digits
RECURSIVE DigitPrefix(_)
DigitPrefix(s) ==
  IF s # <<>> /\ IsDigit(Head(s)) THEN <<Head(s)>> \o DigitPrefix(Tail(s)) ELSE <<>>

RECURSIVE DigitsValue(_)
DigitsValue(ds) ==
  IF ds = <<>> THEN 0
  ELSE 10 * DigitsValue(SubSeq(ds, 1, Len(ds) - 1)) + DigitValue(ds[Len(ds)])

NaN == [isNaN |-> TRUE, value |-> 0]

Num(n) == [isNaN |-> FALSE, value |-> n]

\* parseInt(v): leading white space, an optional sign, then the decimal digits
\* up to the first other character; NaN when there is no digit.
parseInt(v) ==
  IF v = undefined THEN NaN
  ELSE LET t == TrimStart(v)
           neg == t # <<>> /\ Head(t) = "-"
           u == IF t # <<>> /\ Head(t) \in {"-", "+"} THEN Tail(t) ELSE t
           ds == DigitPrefix(u)
       IN IF ds = <<>> THEN NaN
          ELSE Num(IF neg THEN -DigitsValue(ds) ELSE DigitsValue(ds))

\* parseFloat(v), in tenths: leading white space, an optional sign, digits, an
\* optional point and digits; NaN when neither part has a digit.  The inputs
\* of the model carry at most one digit after the point.
parseFloat(v) ==
  IF v = undefined THEN NaN
  ELSE LET t == TrimStart(v)
           neg == t # <<>> /\ Head(t) = "-"
           u == IF t # <<>> /\ Head(t) \in {"-", "+"} THEN Tail(t) ELSE t
           ip == DigitPrefix(u)
           r == SubSeq(u, Len(ip) + 1, Len(u))
           fp == IF r # <<>> /\ Head(r) = "." THEN DigitPrefix(Tail(r)) ELSE <<>>
           tenths == 10 * DigitsValue(ip) + (IF fp = <<>> THEN 0 ELSE DigitValue(fp[1]))
       IN IF ip = <<>> /\ fp = <<>> THEN NaN
          ELSE Num(IF neg THEN -tenths ELSE tenths)

---------------------------------------------------------------------------
(* FileUpload.validateData *)

REQUIRED_FIELDS ==
  <<"sequence_id", "raw_sequence", "read_count", "sample_location", "depth">>

\* an error string: `Row ${row}: ${msg}`, or msg alone for row 0 (an error about
\* the file), followed by the joined fields of "Missing required fields: ..."
Err(row, msg) == [row |-> row, msg |-> msg, fields |-> <<>>]

RECURSIVE SelectFields(_, _)
SelectFields(fs, keep) ==
  IF fs = <<>> THEN <<>>
  ELSE (IF Head(fs) \in keep THEN <<Head(fs)>> ELSE <<>>) \o SelectFields(Tail(fs), keep)

\* Object.keys(data[0]): a column the file lacks reads undefined in every row
Headers(data) == {f \in DOMAIN data[1] : data[1][f] # undefined}

missingFields(data) ==
  SelectFields(REQUIRED_FIELDS, {f \in DOMAIN data[1] : f \notin Headers(data)})

ErrorCap == 10

\* the read_count test placed before the raw_sequence test
RowErrorCountFirst(row, index) ==
  LET sequence_id == ToStringTrim(row.sequence_id)
      raw_sequence == ToStringTrim(row.raw_sequence)
      read_count == parseInt(row.read_count)
      sample_location == ToStringTrim(row.sample_location)
      depth == parseFloat(row.depth)
  IN IF Falsy(sequence_id) THEN <<Err(index + 1, "Missing sequence_id")>>
     ELSE IF read_count.isNaN \/ read_count.value < 1
       THEN <<Err(index + 1, "Invalid read_count (should be a positive integer)")>>
     ELSE IF Falsy(raw_sequence) \/ ~IsDnaString(raw_sequence)
       THEN <<Err(index + 1, "Invalid DNA sequence (should contain only A, T, C, G, N)")>>
     ELSE IF Falsy(sample_location) THEN <<Err(index + 1, "Missing sample_location")>>
     ELSE IF depth.isNaN \/ depth.value < 0
       THEN <<Err(index + 1, "Invalid depth (should be a non-negative number)")>>
     ELSE <<>>

\* the body of data.forEach((row, index) => ...): the error the row adds, or none
RowError(row, index) ==
  LET sequence_id == ToStringTrim(row.sequence_id)
      raw_sequence == ToStringTrim(row.raw_sequence)
      read_count == parseInt(row.read_count)
      sample_location == ToStringTrim(row.sample_location)
      depth == parseFloat(row.depth)
  IN IF Falsy(sequence_id) THEN <<Err(index + 1, "Missing sequence_id")>>
     ELSE IF Falsy(raw_sequence) \/ ~IsDnaString(raw_sequence)
       THEN <<Err(index + 1, "Invalid DNA sequence (should contain only A, T, C, G, N)")>>
     ELSE IF read_count.isNaN \/ read_count.value < 1
       THEN <<Err(index + 1, "Invalid read_count (should be a positive integer)")>>
     ELSE IF Falsy(sample_location) THEN <<Err(index + 1, "Missing sample_location")>>
     ELSE IF depth.isNaN \/ depth.value < 0
       THEN <<Err(index + 1, "Invalid depth (should be a non-negative number)")>>
     ELSE <<>>

\* the record validData.push stores for a row without error
RowRecord(row) ==
  [sequence_id |-> ToStringTrim(row.sequence_id),
   raw_sequence |-> ToUpperCase(ToStringTrim(row.raw_sequence)),
   read_count |-> parseInt(row.read_count).value,
   sample_location |-> ToStringTrim(row.sample_location),
   depth |-> parseFloat(row.depth).value]

RECURSIVE RowErrors(_, _)
RowErrors(data, k) ==
  IF k > Len(data) THEN <<>>
  ELSE RowError(data[k], k - 1) \o RowErrors(data, k + 1)

\* validData.push reached by every row: the return after errors.push left out
RowRecordsAll(data, k) ==
  [j \in 1..(Len(data) - k + 1) |-> RowRecord(data[j + k - 1])]

\* validData.unshift in place of validData.push
RECURSIVE RowRecordsReversed(_, _)
RowRecordsReversed(data, k) ==
  IF k > Len(data) THEN <<>>
  ELSE RowRecordsReversed(data, k + 1)
       \o (IF RowError(data[k], k - 1) = <<>> THEN <<RowRecord(data[k])>> ELSE <<>>)

RECURSIVE RowRecords(_, _)
RowRecords(data, k) ==
  IF k > Len(data) THEN <<>>
  ELSE (IF RowError(data[k], k - 1) = <<>> THEN <<RowRecord(data[k])>> ELSE <<>>)
       \o RowRecords(data, k + 1)

\* the loop over the rows left once errors holds ErrorCap entries
validateDataStopping(data) ==
  IF Len(data) = 0
  THEN [isValid |-> FALSE, errors |-> <<Err(0, "File is empty")>>, validData |-> <<>>]
  ELSE LET errors == RowErrors(data, 1)
           seen == IF Len(errors) >= ErrorCap THEN errors[ErrorCap].row ELSE Len(data)
       IN [isValid |-> Len(errors) = 0,
           errors |-> SubSeq(errors, 1, Min(ErrorCap, Len(errors))),
           validData |-> RowRecords(SubSeq(data, 1, seen), 1)]

validateData(data) ==
  IF Len(data) = 0
  THEN [isValid |-> FALSE, errors |-> <<Err(0, "File is empty")>>, validData |-> <<>>]
  ELSE LET schema == IF Len(missingFields(data)) > 0
                     THEN <<[row |-> 0, msg |-> "Missing required fields",
                             fields |-> missingFields(data)]>>
                     ELSE <<>>
           errors == schema \o RowErrors(data, 1)
       IN [isValid |-> Len(errors) = 0,
           errors |-> SubSeq(errors, 1, Min(ErrorCap, Len(errors))),
           validData |-> RowRecords(data, 1)]

---------------------------------------------------------------------------
(* DataProcessor: the four stage functions *)

minLength == 10
maxLength == 500
minReadCount == 5

RECURSIVE SelectChars(_)
\* seq.raw_sequence.replace(/[^ATCGN]/gi, '')
SelectChars(s) ==
  IF s = <<>> THEN <<>>
  ELSE (IF UpperOf(Head(s)) \in {"A", "T", "C", "G", "N"} THEN <<Head(s)>> ELSE <<>>)
       \o SelectChars(Tail(s))

\* the filter without the test of read_count
preprocessOneAnyReads(seq) ==
  IF /\ Len(seq.raw_sequence) >= minLength
     /\ Len(seq.raw_sequence) <= maxLength
  THEN LET cleanedSequence == SelectChars(seq.raw_sequence)
       IN IF Len(cleanedSequence) > 0
          THEN <<[seq EXCEPT !.raw_sequence = cleanedSequence]>>
          ELSE <<>>
  ELSE <<>>

\* the filter written with read_count > minReadCount
preprocessOneStrict(seq) ==
  IF /\ Len(seq.raw_sequence) >= minLength
     /\ Len(seq.raw_sequence) <= maxLength
     /\ seq.read_count > minReadCount
  THEN LET cleanedSequence == SelectChars(seq.raw_sequence)
       IN IF Len(cleanedSequence) > 0
          THEN <<[seq EXCEPT !.raw_sequence = cleanedSequence]>>
          ELSE <<>>
  ELSE <<>>

\* one turn of the loop of preprocessSequences: what processed.push adds
preprocessOne(seq) ==
  IF /\ Len(seq.raw_sequence) >= minLength
     /\ Len(seq.raw_sequence) <= maxLength
     /\ seq.read_count >= minReadCount
  THEN LET cleanedSequence == SelectChars(seq.raw_sequence)
       IN IF Len(cleanedSequence) > 0
          THEN <<[seq EXCEPT !.raw_sequence = cleanedSequence]>>
          ELSE <<>>
  ELSE <<>>

charCodeAt(c) ==
  CASE c = "A" -> 65 [] c = "C" -> 67 [] c = "G" -> 71 [] c = "N" -> 78 [] c = "T" -> 84
    [] c = "a" -> 97 [] c = "c" -> 99 [] c = "g" -> 103 [] c = "n" -> 110 [] c = "t" -> 116

\* A JavaScript number h is kept as <<hi, lo>> with h = hi * 65536 + lo and
\* 0 <= lo < 65536, so that no intermediate value leaves the 32-bit integers.
W16 == 65536

\* ToInt32(h)
ToInt32(h) == (((h[1] + 32768) % W16) - 32768) * W16 + h[2]

\* w << 5 for a 32-bit integer w
Shl5(w) ==
  LET m == w % 134217728
  IN IF m >= 67108864 THEN (m - 134217728) * 32 ELSE m * 32

\* char.charCodeAt(0) + ((hash << 5) - hash): the difference is not wrapped
hashStep(hash, char) ==
  LET s == Shl5(ToInt32(hash))
      lo == (s % W16) - hash[2] + charCodeAt(char)
      hi == (s \div W16) - hash[1]
  IN <<hi + (lo \div W16), lo % W16>>

\* the reduce from character k on; each step's value is computed before the
\* next step is entered
RECURSIVE seqHashFrom(_, _, _)
seqHashFrom(hash, s, k) ==
  IF k > Len(s) THEN hash
  ELSE LET h == hashStep(hash, s[k])
       IN IF h[2] >= 0 THEN seqHashFrom(h, s, k + 1) ELSE h

\* raw_sequence.split('').reduce(..., 0)
seqHash(s) == seqHashFrom(<<0, 0>>, s, 1)

\* Math.abs(h) % m
AbsMod(h, m) ==
  IF h[1] < 0 THEN ((-h[1]) * (W16 % m) - h[2]) % m
  ELSE (h[1] * (W16 % m) + h[2]) % m

knownTaxa ==
  <<"Bacteria;Proteobacteria;Gammaproteobacteria",
    "Bacteria;Bacteroidetes;Flavobacteriia",
    "Eukaryota;Stramenopiles;Bacillariophyta",
    "Eukaryota;Alveolata;Dinoflagellata",
    "Bacteria;Actinobacteria;Actinobacteria",
    "Eukaryota;Opisthokonta;Metazoa;Arthropoda",
    "Eukaryota;Archaeplastida;Chlorophyta",
    "Bacteria;Cyanobacteria;Oscillatoriophycideae">>

\* parseFloat((0.6 + (Math.abs(seqHash) % 40) / 100).toFixed(3)), in thousandths
confidenceOf(s) == 600 + 10 * AbsMod(seqHash(s), 40)

taxonIndex(s) == AbsMod(seqHash(s), Len(knownTaxa))

\* classifyTaxonomy assigning a cluster itself to a low-confidence result
classifyOneAssigning(seq) ==
  [sequence_id |-> seq.sequence_id,
   predicted_taxon |-> knownTaxa[taxonIndex(seq.raw_sequence) + 1],
   confidence |-> confidenceOf(seq.raw_sequence),
   cluster_id |-> IF confidenceOf(seq.raw_sequence) < 700 THEN <<1>> ELSE <<>>]

\* the taxon index taken from read_count in place of the hash
classifyOneByReads(seq) ==
  [sequence_id |-> seq.sequence_id,
   predicted_taxon |-> knownTaxa[(seq.read_count % Len(knownTaxa)) + 1],
   confidence |-> confidenceOf(seq.raw_sequence),
   cluster_id |-> <<>>]

\* one turn of the loop of classifyTaxonomy: the result results.push adds
classifyOne(seq) ==
  [sequence_id |-> seq.sequence_id,
   predicted_taxon |-> knownTaxa[taxonIndex(seq.raw_sequence) + 1],
   confidence |-> confidenceOf(seq.raw_sequence),
   cluster_id |-> <<>>]

lowConfidenceThreshold == 700

\* the filter of performClustering written with <= instead of <
isUnknownInclusive(result) == result.confidence <= lowConfidenceThreshold

isUnknown(result) == result.confidence < lowConfidenceThreshold

\* the number of low-confidence results among the first k
unknownBefore(results, k) == Cardinality({j \in 1..k : isUnknown(results[j])})

\* a cluster of its own for every low-confidence result: index + 1
clusterAssignmentPerResult(index) == index + 1

\* (index % 3) + 1
clusterAssignment(index) == (index % 3) + 1

\* the list performClustering returns: result.cluster_id is written on the
\* low-confidence results, index counting them in order
performClustering(results) ==
  [k \in 1..Len(results) |->
     IF isUnknown(results[k])
     THEN [results[k] EXCEPT !.cluster_id =
             <<clusterAssignment(unknownBefore(results, k - 1))>>]
     ELSE results[k]]

\* sequences.find(s => s.sequence_id === id): <<>> or <<the first match>>
find(sequences, id) ==
  LET hits == {k \in 1..Len(sequences) : sequences[k].sequence_id = id}
  IN IF hits = {} THEN <<>>
     ELSE <<sequences[CHOOSE k \in hits : \A j \in hits : k <= j]>>

RECURSIVE SumOver(_, _)
SumOver(f, S) ==
  IF S = {} THEN 0
  ELSE LET x == CHOOSE y \in S : TRUE IN f[x] + SumOver(f, S \ {x})

\* the keys of speciesAbundance: the taxa of the results whose record is found
abundanceKeys(sequences, results) ==
  {results[k].predicted_taxon :
     k \in {j \in 1..Len(results) : find(sequences, results[j].sequence_id) # <<>>}}

\* speciesAbundance
speciesAbundance(sequences, results) ==
  [taxon \in abundanceKeys(sequences, results) |->
     SumOver([k \in 1..Len(results) |->
                find(sequences, results[k].sequence_id)[1].read_count],
             {k \in 1..Len(results) :
                /\ results[k].predicted_taxon = taxon
                /\ find(sequences, results[k].sequence_id) # <<>>})]

\* Math.log(n) in millionths, n = 1..64
LnMicro ==
  <<0, 693147, 1098612, 1386294, 1609438, 1791759, 1945910, 2079442,
    2197225, 2302585, 2397895, 2484907, 2564949, 2639057, 2708050, 2772589,
    2833213, 2890372, 2944439, 2995732, 3044522, 3091042, 3135494, 3178054,
    3218876, 3258097, 3295837, 3332205, 3367296, 3401197, 3433987, 3465736,
    3496508, 3526361, 3555348, 3583519, 3610918, 3637586, 3663562, 3688879,
    3713572, 3737670, 3761200, 3784190, 3806662, 3828641, 3850148, 3871201,
    3891820, 3912023, 3931826, 3951244, 3970292, 3988984, 4007333, 4025352,
    4043051, 4060443, 4077537, 4094345, 4110874, 4127134, 4143135, 4158883>>

\* n / d rounded to the nearest integer, n >= 0 and d > 0
RoundDiv(n, d) == (2 * n + d) \div (2 * d)

\* -sum of p * Math.log(p) over the proportions, toFixed(3), in thousandths;
\* p * Math.log(p) is NaN for the proportion 0 / 0 and for the proportion 0
shannonOf(ab) ==
  LET total == SumOver(ab, DOMAIN ab)
  IN IF \E t \in DOMAIN ab : ab[t] = 0 THEN NaN
     ELSE Num(RoundDiv(SumOver([t \in DOMAIN ab |->
                                  ab[t] * (LnMicro[total] - LnMicro[ab[t]])],
                               DOMAIN ab),
                       1000 * Max(total, 1)))

\* the sum of squares divided by the total once instead of twice
simpsonOfUnnormalised(ab) ==
  LET total == SumOver(ab, DOMAIN ab)
  IN IF DOMAIN ab # {} /\ total = 0 THEN NaN
     ELSE Num(RoundDiv(1000 * SumOver([t \in DOMAIN ab |-> ab[t] * ab[t]], DOMAIN ab),
                       Max(total, 1)))

\* sum of p * p over the proportions, toFixed(3), in thousandths
simpsonOf(ab) ==
  LET total == SumOver(ab, DOMAIN ab)
  IN IF DOMAIN ab # {} /\ total = 0 THEN NaN
     ELSE Num(RoundDiv(1000 * SumOver([t \in DOMAIN ab |-> ab[t] * ab[t]], DOMAIN ab),
                       Max(total * total, 1)))

singletons(ab) == Cardinality({t \in DOMAIN ab : ab[t] = 1})

\* the filter written count >= 2
doubletonsOrMore(ab) == Cardinality({t \in DOMAIN ab : ab[t] >= 2})

doubletons(ab) == Cardinality({t \in DOMAIN ab : ab[t] = 2})

\* species_richness + (singletons * singletons) / (2 * (doubletons || 1)),
\* as the pair <<n, d>> of the fraction n / d
chao1_estimator(ab) ==
  LET d == 2 * (IF doubletons(ab) = 0 THEN 1 ELSE doubletons(ab))
  IN <<Cardinality(DOMAIN ab) * d + singletons(ab) * singletons(ab), d>>

\* parseFloat(chao1_estimator.toFixed(1)), in tenths
chao1Of(ab) == RoundDiv(10 * chao1_estimator(ab)[1], chao1_estimator(ab)[2])

\* the object calculateBiodiversity returns
calculateBiodiversity(sequences, results) ==
  LET ab == speciesAbundance(sequences, results)
  IN [shannon_index |-> shannonOf(ab),
      simpson_index |-> simpsonOf(ab),
      chao1_estimator |-> chao1Of(ab),
      species_richness |-> Cardinality(DOMAIN ab)]

\* the whole loop of preprocessSequences
RECURSIVE preprocessSequences(_)
preprocessSequences(sequences) ==
  IF sequences = <<>> THEN <<>>
  ELSE preprocessOne(Head(sequences)) \o preprocessSequences(Tail(sequences))

\* the whole loop of classifyTaxonomy
classifyTaxonomy(sequences) == [k \in 1..Len(sequences) |-> classifyOne(sequences[k])]

\* finalResults of a run of startProcessing that completes on data
ProcessedDataOf(data) ==
  LET processedSequences == preprocessSequences(data)
      taxonomyResults == performClustering(classifyTaxonomy(processedSequences))
  IN [originalData |-> data,
      processedSequences |-> processedSequences,
      taxonomyResults |-> taxonomyResults,
      biodiversityMetrics |-> calculateBiodiversity(processedSequences, taxonomyResults)]

---------------------------------------------------------------------------
(* ExportResults: the tables it hands to downloadCSV *)

\* the members of a set of positions, ascending
RECURSIVE Ascending(_)
Ascending(S) ==
  IF S = {} THEN <<>>
  ELSE LET m == CHOOSE x \in S : \A y \in S : x <= y IN <<m>> \o Ascending(S \ {m})

\* Array.from(new Set(data.processedSequences.map(s => s.sample_location))):
\* the locations in the order of their first record
locationsOf(data) ==
  LET seqs == data.processedSequences
      firsts == {k \in 1..Len(seqs) :
                   \A j \in 1..(k - 1) : seqs[j].sample_location # seqs[k].sample_location}
  IN [n \in 1..Cardinality(firsts) |-> seqs[Ascending(firsts)[n]].sample_location]

\* the results generateAbundanceMatrix counts: those whose record find returns
countedResults(data) ==
  {k \in 1..Len(data.taxonomyResults) :
     find(data.processedSequences, data.taxonomyResults[k].sequence_id) # <<>>}

\* Object.entries(abundanceMap): the taxa in the order of their first counted result
abundanceTaxa(data) ==
  LET res == data.taxonomyResults
      firsts == {k \in countedResults(data) :
                   \A j \in countedResults(data) :
                      j < k => res[j].predicted_taxon # res[k].predicted_taxon}
  IN [n \in 1..Cardinality(firsts) |-> res[Ascending(firsts)[n]].predicted_taxon]

\* abundanceMap[taxon][loc]: each counted result adds the read_count of the
\* record find returns at that record's sample_location
abundanceCell(data, taxon, loc) ==
  LET res == data.taxonomyResults
      rec(k) == find(data.processedSequences, res[k].sequence_id)[1]
  IN SumOver([k \in countedResults(data) |-> rec(k).read_count],
             {k \in countedResults(data) :
                res[k].predicted_taxon = taxon /\ rec(k).sample_location = loc})

\* the rows built from the counts alone, without the initialisation to 0: a
\* row holds a cell only where the taxon was counted
generateAbundanceMatrixSparse(data) ==
  LET locations == locationsOf(data)
      taxa == abundanceTaxa(data)
      counted(n) == {c \in 1..Len(locations) : abundanceCell(data, taxa[n], locations[c]) > 0}
  IN <<(<<"Taxon">> \o locations)>>
     \o [n \in 1..Len(taxa) |->
          <<taxa[n]>> \o [i \in 1..Cardinality(counted(n)) |->
                            abundanceCell(data, taxa[n],
                                          locations[Ascending(counted(n))[i]])]]

\* [headers, ...rows]
generateAbundanceMatrix(data) ==
  LET locations == locationsOf(data)
      taxa == abundanceTaxa(data)
  IN <<(<<"Taxon">> \o locations)>>
     \o [n \in 1..Len(taxa) |->
          <<taxa[n]>> \o [c \in 1..Len(locations) |->
                            abundanceCell(data, taxa[n], locations[c])]]

\* value || '': the empty string for a value that is falsy
OrBlank(value, falsy) == IF falsy THEN <<>> ELSE <<value>>

\* one row of generateTaxonomyResults; sequence is what find returns
taxonomyRow(data, result) ==
  LET sequence == find(data.processedSequences, result.sequence_id)
  IN <<result.sequence_id,
       result.predicted_taxon,
       result.confidence,
       result.cluster_id,
       IF sequence = <<>> THEN <<>> ELSE sequence[1].sample_location,
       OrBlank(sequence[1].depth, sequence = <<>> \/ sequence[1].depth = 0),
       OrBlank(sequence[1].read_count, sequence = <<>> \/ sequence[1].read_count = 0)>>

\* [headers, ...rows]
generateTaxonomyResults(data) ==
  << <<"sequence_id", "predicted_taxon", "confidence", "cluster_id",
       "sample_location", "depth", "read_count">> >>
  \o [k \in 1..Len(data.taxonomyResults) |-> taxonomyRow(data, data.taxonomyResults[k])]

\* n / d to the nearest integer, halves away from zero, d > 0
RoundSigned(n, d) == IF n >= 0 THEN RoundDiv(n, d) ELSE 0 - RoundDiv(0 - n, d)

\* the records of the positions kept by a filter, in order
AtPositions(seq, S) == [n \in 1..Cardinality(S) |-> seq[Ascending(S)[n]]]

\* locationSequences
locationSequences(data, location) ==
  AtPositions(data.processedSequences,
              {k \in 1..Len(data.processedSequences) :
                 data.processedSequences[k].sample_location = location})

\* locationTaxonomy: the results whose sequence_id some record of the location has
locationTaxonomy(data, location) ==
  LET seqs == locationSequences(data, location)
  IN AtPositions(data.taxonomyResults,
                 {k \in 1..Len(data.taxonomyResults) :
                    find(seqs, data.taxonomyResults[k].sequence_id) # <<>>})

\* one element of locationMetrics; the proportions are taken over totalReads,
\* the reads of the records of the location
locationMetricsOf(data, location) ==
  LET seqs == locationSequences(data, location)
      res == locationTaxonomy(data, location)
      totalReads == SumOver([k \in 1..Len(seqs) |-> seqs[k].read_count], 1..Len(seqs))
      abundanceMap == speciesAbundance(seqs, res)
      taxa == DOMAIN abundanceMap
      undefinedP == \E t \in taxa : abundanceMap[t] = 0
  IN [species_richness |-> Cardinality({res[k].predicted_taxon : k \in 1..Len(res)}),
      shannon_index |->
        IF undefinedP THEN NaN
        ELSE Num(RoundSigned(SumOver([t \in taxa |->
                                        abundanceMap[t] * (LnMicro[totalReads]
                                                           - LnMicro[abundanceMap[t]])],
                                     taxa),
                             1000 * Max(totalReads, 1))),
      simpson_index |->
        IF undefinedP THEN NaN
        ELSE Num(RoundDiv(1000 * SumOver([t \in taxa |-> abundanceMap[t] * abundanceMap[t]],
                                         taxa),
                          Max(totalReads * totalReads, 1))),
      total_sequences |-> Len(seqs),
      total_reads |-> totalReads]

\* [headers, ...rows]; the Chao1 row is filled with '' for the locations
generateBiodiversityReport(data) ==
  LET locations == locationsOf(data)
      locationMetrics == [c \in 1..Len(locations) |-> locationMetricsOf(data, locations[c])]
      seqs == data.processedSequences
  IN << <<"metric", "overall">> \o locations,
        <<"Species Richness", data.biodiversityMetrics.species_richness>>
          \o [c \in 1..Len(locations) |-> locationMetrics[c].species_richness],
        <<"Shannon Index", data.biodiversityMetrics.shannon_index>>
          \o [c \in 1..Len(locations) |-> locationMetrics[c].shannon_index],
        <<"Simpson Index", data.biodiversityMetrics.simpson_index>>
          \o [c \in 1..Len(locations) |-> locationMetrics[c].simpson_index],
        <<"Chao1 Estimator", data.biodiversityMetrics.chao1_estimator>>
          \o [c \in 1..Len(locations) |-> <<>>],
        <<"Total Sequences", Len(seqs)>>
          \o [c \in 1..Len(locations) |-> locationMetrics[c].total_sequences],
        <<"Total Reads", SumOver([k \in 1..Len(seqs) |-> seqs[k].read_count], 1..Len(seqs))>>
          \o [c \in 1..Len(locations) |-> locationMetrics[c].total_reads] >>

---------------------------------------------------------------------------
(* BiodiversityDashboard: filters and what it shows *)

all == <<"a", "l", "l">>

\* `${n}` for a number n >= 0 kept in tenths
RECURSIVE NumberToString(_)
NumberToString(n) ==
  IF n % 10 # 0 THEN NumberToString(n - (n % 10)) \o <<".", Digits[(n % 10) + 1]>>
  ELSE IF n < 100 THEN <<Digits[(n \div 10) + 1]>>
  ELSE NumberToString(10 * (n \div 100)) \o <<Digits[((n \div 10) % 10) + 1]>>

\* Number(s), in tenths, for a string without white space
ToNumber(s) ==
  IF s = <<>> THEN Num(0)
  ELSE IF /\ \A k \in 1..Len(s) : IsDigit(s[k]) \/ s[k] = "."
          /\ Cardinality({k \in 1..Len(s) : s[k] = "."}) <= 1
          /\ \E k \in 1..Len(s) : IsDigit(s[k])
       THEN parseFloat(s)
       ELSE NaN

\* String.prototype.split(separator)
RECURSIVE split(_, _)
split(s, separator) ==
  LET at == {k \in 1..Len(s) : s[k] = separator}
  IN IF at = {} THEN <<s>>
     ELSE LET k == CHOOSE x \in at : \A y \in at : x <= y
          IN <<SubSeq(s, 1, k - 1)>> \o split(SubSeq(s, k + 1, Len(s)), separator)

\* ["all", ...uniqueLocations]: the locations of originalData in the order of
\* their first record
locationsWithAll(data) ==
  <<all>> \o locationsOf([processedSequences |-> data.originalData])

\* ["all", `${i}-${Math.min(i + 10, maxDepth)}m` for i = 0, 10, ... < maxDepth]
depthRanges(data) ==
  LET depths == {data.originalData[k].depth : k \in 1..Len(data.originalData)}
      maxDepth == CHOOSE d \in depths : \A e \in depths : e <= d
      count == IF depths = {} THEN 0 ELSE (maxDepth + 99) \div 100
  IN <<all>> \o [j \in 1..count |->
                  NumberToString(100 * (j - 1)) \o <<"-">>
                  \o NumberToString(Min(100 * j, maxDepth)) \o <<"m">>]

\* selectedDepthRange.replace('m', '').split('-').map(Number)
rangeBounds(selectedDepthRange) ==
  LET ms == {k \in 1..Len(selectedDepthRange) : selectedDepthRange[k] = "m"}
      m == CHOOSE k \in ms : \A j \in ms : k <= j
      stripped == IF ms = {} THEN selectedDepthRange
                  ELSE SubSeq(selectedDepthRange, 1, m - 1)
                       \o SubSeq(selectedDepthRange, m + 1, Len(selectedDepthRange))
      parts == split(stripped, "-")
  IN [k \in 1..Len(parts) |-> ToNumber(parts[k])]

\* filteredData: the positions of processedSequences the two filters keep; a
\* comparison with NaN or with a missing bound is false
filteredPositions(data, selectedLocation, selectedDepthRange) ==
  LET bounds == rangeBounds(selectedDepthRange)
  IN {k \in 1..Len(data.processedSequences) :
        /\ selectedLocation # all =>
             data.processedSequences[k].sample_location = selectedLocation
        /\ selectedDepthRange # all =>
             /\ Len(bounds) >= 2 /\ ~bounds[1].isNaN /\ ~bounds[2].isNaN
             /\ data.processedSequences[k].depth >= bounds[1].value
             /\ data.processedSequences[k].depth < bounds[2].value}

filteredData(data, selectedLocation, selectedDepthRange) ==
  AtPositions(data.processedSequences,
              filteredPositions(data, selectedLocation, selectedDepthRange))

\* the four cards of Biodiversity Metrics Overview: data.biodiversityMetrics,
\* simpson_index.toFixed(3) and Math.round(chao1_estimator)
metricCards(data) ==
  [species_richness |-> data.biodiversityMetrics.species_richness,
   shannon_index |-> data.biodiversityMetrics.shannon_index,
   simpson_index |-> data.biodiversityMetrics.simpson_index,
   chao1_estimator |-> (data.biodiversityMetrics.chao1_estimator + 5) \div 10]

---------------------------------------------------------------------------
(* Progress values: exact fractions <<n, d>> in lowest terms, d > 0 *)

RECURSIVE GCD(_, _)
GCD(a, b) == IF b = 0 THEN a ELSE GCD(b, a % b)

Frac(n, d) == LET g == GCD(n, d) IN IF g = 0 THEN <<0, 1>> ELSE <<n \div g, d \div g>>

Whole(n) == <<n, 1>>

FracLeq(a, b) == a[1] * b[2] <= b[1] * a[2]

---------------------------------------------------------------------------
(* The files a user can select or drop: parsed rows, every field a string *)

Row(id, sequence, count, location, depth) ==
  [sequence_id |-> id, raw_sequence |-> sequence, read_count |-> count,
   sample_location |-> location, depth |-> depth]

seqShort == <<"a", "t", "c", "g">>
seqLow == <<"A", "A", "A", "A", "A", "A", "A", "A", "A", "A">>
seqEdge == <<"A", "T", "C", "G", "A", "T", "C", "G", "T", "T">>
seqHigh == <<"a", "t", "c", "g", "a", "t", "c", "g", "a", "t">>
seqSample1 == <<"A", "T", "C", "G", "A", "T", "C", "G", "A", "T", "C", "G", "A", "T", "C", "G">>
seqSample2 == <<"G", "C", "T", "A", "G", "C", "T", "A", "G", "C", "T", "A", "G", "C", "T", "A">>
seqTaxon4 == <<"A", "T", "C", "G", "A", "T", "C", "G", "A", "G">>
seqLong == [k \in 1..(maxLength + 1) |-> "A"]
seqBad == <<"A", "T", "Z", "G", "A", "T", "C", "G", "A", "T">>

FileNames == {"empty", "sample", "lowq", "mixed", "dupes", "many", "nodepth",
              "unknowns"}

FileRows(name) ==
  CASE name = "empty" -> <<>>
    [] name = "sample" ->
         <<Row(<<"S", "1">>, seqSample1, <<"1", "2">>, <<"A">>, <<"1", "0", ".", "5">>),
           Row(<<"S", "2">>, seqSample2, <<"8">>, <<"A">>, <<"1", "0", ".", "5">>),
           Row(<<"S", "3">>, seqLow, <<"5">>, <<"B">>, <<"0">>),
           Row(<<"S", "4">>, seqEdge, <<"7">>, <<" ", "B">>, <<"2", "5">>)>>
    [] name = "lowq" ->
         <<Row(<<"S", "1">>, seqShort, <<"3">>, <<"A">>, <<"1", ".", "0">>),
           Row(<<"S", "2">>, seqHigh, <<"4">>, <<"B">>, <<"2">>),
           Row(<<"S", "3">>, seqShort, <<"9">>, <<"B">>, <<"2">>),
           Row(<<"S", "4">>, seqLong, <<"9">>, <<"B">>, <<"2">>)>>
    [] name = "mixed" ->
         <<Row(<<"S", "1">>, seqBad, <<"9">>, <<"A">>, <<"1">>),
           Row(<<"S", "2">>, seqHigh, <<"6">>, <<"A">>, <<"3">>),
           Row(<<" ">>, seqLow, <<"6">>, <<"A">>, <<"3">>),
           Row(<<"S", "4">>, seqLow, <<"0">>, <<"B">>, <<"3">>),
           Row(<<"S", "5">>, seqLow, <<"6">>, <<>>, <<"3">>),
           Row(<<"S", "6">>, seqLow, <<"6">>, <<"B">>, <<"-", "1">>)>>
    [] name = "dupes" ->
         <<Row(<<"S", "1">>, seqLow, <<"5">>, <<"A">>, <<"0">>),
           Row(<<"S", "1">>, seqHigh, <<"9">>, <<"B">>, <<"4">>),
           Row(<<"S", "2">>, seqLow, <<"6">>, <<"B">>, <<"4">>)>>
    [] name = "many" ->
         <<Row(<<"V", "1">>, seqLow, <<"5">>, <<"A">>, <<"0">>),
           Row(<<"X", "1">>, seqBad, <<"9">>, <<"A">>, <<"1">>),
           Row(<<>>, seqLow, <<"9">>, <<"A">>, <<"1">>),
           Row(<<"V", "2">>, seqHigh, <<"4">>, <<"A">>, <<"1">>),
           Row(<<"X", "3">>, seqLow, <<"x">>, <<"A">>, <<"1">>),
           Row(<<"X", "4">>, seqLow, <<"9">>, <<" ">>, <<"1">>),
           Row(<<"X", "5">>, seqLow, <<"9">>, <<"A">>, <<"d">>),
           Row(<<"X", "6">>, <<>>, <<"9">>, <<"A">>, <<"1">>),
           Row(<<"X", "7">>, seqLow, <<"-", "2">>, <<"A">>, <<"1">>),
           Row(<<"X", "8">>, seqBad, <<"0">>, <<>>, <<"-", "1">>),
           Row(<<"X", "9">>, seqLow, <<"0">>, <<"A">>, <<"1">>),
           Row(<<"X", "1", "0">>, seqLow, <<"9">>, <<"A">>, <<"-", "0", ".", "5">>),
           Row(<<"V", "3">>, seqEdge, <<"7">>, <<"B">>, <<"2">>),
           Row(<<"X", "1", "1">>, seqBad, <<"9">>, <<"A">>, <<"1">>),
           Row(<<"X", "1", "2">>, seqLow, <<"9">>, <<>>, <<"1">>),
           Row(<<"V", "4">>, seqTaxon4, <<"9">>, <<"B">>, <<"3">>)>>
    [] name = "nodepth" ->
         \* a file without the depth column
         <<Row(<<"H", "1">>, seqLow, <<"9">>, <<"A">>, undefined),
           Row(<<>>, seqBad, <<"0">>, <<>>, undefined),
           Row(<<"H", "3">>, seqLow, <<"x">>, <<>>, undefined)>>
    [] name = "unknowns" ->
         <<Row(<<"U", "1">>, seqLow, <<"5">>, <<"A">>, <<"1">>),
           Row(<<"U", "2">>, seqHigh, <<"9">>, <<"A">>, <<"1">>),
           Row(<<"U", "3">>, seqLow, <<"6">>, <<"A">>, <<"2">>),
           Row(<<"U", "4">>, seqLow, <<"7">>, <<"B">>, <<"2">>),
           Row(<<"U", "5">>, seqLow, <<"8">>, <<"B">>, <<"3">>),
           Row(<<"U", "6">>, seqEdge, <<"9">>, <<"B">>, <<"3">>),
           Row(<<"U", "7">>, seqLow, <<"9">>, <<"C">>, <<"4">>),
           Row(<<"U", "8">>, seqTaxon4, <<"1">>, <<"C">>, <<"4">>)>>

\* validateData(results.data) for each file
Validated == [name \in FileNames |-> validateData(FileRows(name))]

---------------------------------------------------------------------------
(* State after construction *)

StepInit == [progress |-> Whole(0), status |-> "pending"]

RunIdle ==
  [data |-> <<>>, capturedStep |-> 0, i |-> 0,
   processedSequences |-> <<>>, taxonomyResults |-> <<>>, biodiversityMetrics |-> <<>>]

\* useState initial values of FileUpload
UploadInit ==
  /\ fileInput = <<>>
  /\ uploadIsProcessing = FALSE
  /\ uploadProgress = 0
  /\ validationErrors = <<>>
  /\ previewData = <<>>

\* useState initial values of BiodiversityDashboard
DashboardInit == [selectedLocation |-> all, selectedDepthRange |-> all]

\* useState initial values of ExportResults
ExportInit ==
  [abundanceMatrix |-> TRUE, taxonomyResults |-> TRUE, biodiversityMetrics |-> TRUE,
   downloads |-> <<>>, taxonomyData |-> <<>>, biodiversityData |-> <<>>]

\* useState initial values of DataProcessor
ProcInit ==
  /\ isProcessing = FALSE
  /\ currentStep = 0
  /\ overallProgress = Whole(0)
  /\ steps = [k \in 1..4 |-> StepInit]
  /\ processedResults = <<>>

Init ==
  /\ UploadInit
  /\ parses = EmptyBag
  /\ pageStep = "upload"
  /\ uploadedData = <<>>
  /\ processedData = <<>>
  /\ uploadedFrom = <<>>
  /\ exported = ExportInit
  /\ dashboard = DashboardInit
  /\ ProcInit
  /\ pc = "idle"
  /\ run = RunIdle
  /\ timers = <<>>
  /\ toast = <<>>

\* FileUpload leaves the page: its state is discarded
UploadReset ==
  /\ fileInput' = <<>>
  /\ uploadIsProcessing' = FALSE
  /\ uploadProgress' = 0
  /\ validationErrors' = <<>>
  /\ previewData' = <<>>

\* DataProcessor leaves the page, or a new one is built
ProcReset ==
  /\ isProcessing' = FALSE
  /\ currentStep' = 0
  /\ overallProgress' = Whole(0)
  /\ steps' = [k \in 1..4 |-> StepInit]
  /\ processedResults' = <<>>

Toast(title, description, n) == <<[title |-> title, description |-> description, n |-> n]>>

---------------------------------------------------------------------------
(* FileUpload handlers *)

MaxConfirms == 2

Parse(kind, file) == [kind |-> kind, file |-> file]

\* processFile up to Papa.parse
processFile(file) ==
  /\ uploadIsProcessing' = TRUE
  /\ uploadProgress' = 0
  /\ validationErrors' = <<>>
  /\ parses' = parses (+) SetToBag({Parse("process", file)})
  /\ UNCHANGED previewData

\* the file input is enabled while FileUpload is shown and not busy
handleFileSelect(file) ==
  /\ pageStep = "upload"
  /\ ~uploadIsProcessing
  /\ fileInput' = <<file>>
  /\ processFile(file)
  /\ UNCHANGED <<indexVars, procVars, runVars>>

\* the file dialog closed with no file: e.target.files is empty
handleFileSelectNone ==
  /\ pageStep = "upload"
  /\ ~uploadIsProcessing
  /\ fileInput # <<>>
  /\ fileInput' = <<>>
  /\ UNCHANGED <<uploadIsProcessing, uploadProgress, validationErrors, previewData,
                 parses, indexVars, procVars, runVars>>

\* a dropped .csv file: the file input keeps what it held (a drop without a
\* .csv file only raises a toast of FileUpload, which is not part of the state)
handleDrop(file) ==
  /\ pageStep = "upload"
  /\ ~uploadIsProcessing
  /\ processFile(file)
  /\ UNCHANGED <<fileInput, indexVars, procVars, runVars>>

firstFive(rows) == SubSeq(rows, 1, Min(5, Len(rows)))

\* the complete callback without the return after setValidationErrors: the
\* valid rows of a file with errors are offered for confirmation
processFileCompleteLenient(p) ==
  /\ BagIn(p, parses) /\ p.kind = "process"
  /\ parses' = parses (-) SetToBag({p})
  /\ LET v == Validated[p.file]
     IN /\ uploadProgress' = 100
        /\ uploadIsProcessing' = FALSE
        /\ validationErrors' = IF v.isValid THEN validationErrors ELSE v.errors
        /\ previewData' = <<firstFive(v.validData)>>
  /\ UNCHANGED <<fileInput, indexVars, procVars, runVars>>

\* Papa.parse's complete callback of processFile
processFileComplete(p) ==
  /\ BagIn(p, parses) /\ p.kind = "process"
  /\ parses' = parses (-) SetToBag({p})
  /\ LET v == Validated[p.file]
     IN /\ uploadProgress' = 100
        /\ uploadIsProcessing' = FALSE
        /\ validationErrors' = IF v.isValid THEN validationErrors ELSE v.errors
        /\ previewData' = IF v.isValid THEN <<firstFive(v.validData)>> ELSE previewData
  /\ UNCHANGED <<fileInput, indexVars, procVars, runVars>>

\* Papa.parse's error callback of processFile; the error reads
\* `Failed to parse CSV file: ${error.message}`, the message is left out
processFileError(p) ==
  /\ BagIn(p, parses) /\ p.kind = "process"
  /\ parses' = parses (-) SetToBag({p})
  /\ uploadIsProcessing' = FALSE
  /\ validationErrors' = <<Err(0, "Failed to parse CSV file")>>
  /\ UNCHANGED <<fileInput, uploadProgress, previewData, indexVars, procVars, runVars>>

\* the Papa.parse calls of handleConfirmUpload not yet completed
confirmsInFlight ==
  SumOver([f \in FileNames |-> CopiesIn(Parse("confirm", f), parses)], FileNames)

\* Process Dataset is shown while previewData is set; it parses the file the
\* file input holds
handleConfirmUpload ==
  /\ pageStep = "upload"
  /\ previewData # <<>>
  /\ fileInput # <<>>
  /\ confirmsInFlight < MaxConfirms
  /\ parses' = parses (+) SetToBag({Parse("confirm", fileInput[1])})
  /\ UNCHANGED <<fileInput, uploadIsProcessing, uploadProgress, validationErrors,
                 previewData, indexVars, procVars, runVars>>

---------------------------------------------------------------------------
(* Index handlers *)

\* the calls of handleConfirmUpload among the Papa.parse calls b; the
\* callbacks of processFile set state of FileUpload only, and do nothing once
\* FileUpload has left the page
confirmsOf(b) ==
  LET names == {f \in FileNames : BagIn(Parse("confirm", f), b)}
  IN [q \in {Parse("confirm", f) : f \in names} |-> CopiesIn(q, b)]

\* handleDataUpload: leaving the upload tab discards FileUpload, entering the
\* process tab from another one builds a new DataProcessor
handleDataUpload(data, file) ==
  /\ uploadedData' = <<data>>
  /\ uploadedFrom' = <<file>>
  /\ pageStep' = "process"
  /\ UploadReset
  /\ IF pageStep = "process" THEN UNCHANGED procVars ELSE ProcReset
  /\ dashboard' = DashboardInit
  /\ UNCHANGED <<processedData, exported>>

\* Papa.parse's complete callback of handleConfirmUpload
confirmComplete(p) ==
  /\ BagIn(p, parses) /\ p.kind = "confirm"
  /\ parses' = confirmsOf(parses (-) SetToBag({p}))
  /\ handleDataUpload(Validated[p.file].validData, p.file)
  /\ UNCHANGED runVars

\* handleDataProcessed: leaving the process tab discards DataProcessor
handleDataProcessed(data) ==
  /\ processedData' = <<data>>
  /\ pageStep' = "analyze"
  /\ ProcReset
  /\ dashboard' = IF pageStep = "analyze" THEN dashboard ELSE DashboardInit
  /\ UNCHANGED <<uploadedData, uploadedFrom, exported>>

---------------------------------------------------------------------------
(* DataProcessor: startProcessing, one action per progress update *)

\* totalProgress summed over the progress fields of steps as the closure holds
\* them (all 0 at the click) instead of 100 for the steps before stepIndex
updateStepProgressStale(stepIndex, progress, status) ==
  /\ steps' = [steps EXCEPT ![stepIndex + 1] = [progress |-> progress, status |-> status]]
  /\ overallProgress' = Frac(progress[1], Len(steps) * progress[2])

\* updateStepProgress(stepIndex, progress, status), stepIndex counted from 0
updateStepProgress(stepIndex, progress, status) ==
  /\ steps' = [steps EXCEPT ![stepIndex + 1] = [progress |-> progress, status |-> status]]
  /\ overallProgress' = Frac(100 * stepIndex * progress[2] + progress[1],
                             Len(steps) * progress[2])

\* Start AI Analysis shown whenever no run is in progress: !isProcessing alone
startProcessingAgain ==
  /\ pageStep = "process"
  /\ uploadedData # <<>>
  /\ ~isProcessing
  /\ pc = "idle"
  /\ isProcessing' = TRUE
  /\ currentStep' = 0
  /\ run' = [RunIdle EXCEPT !.data = uploadedData[1], !.capturedStep = currentStep]
  /\ updateStepProgress(0, Whole(0), "processing")
  /\ pc' = "preprocess"
  /\ UNCHANGED <<uploadVars, indexVars, processedResults, timers, toast>>

\* Start AI Analysis shown during a run as well: !processedResults alone; the
\* click starts the run over
startProcessingDuringRun ==
  /\ pageStep = "process"
  /\ uploadedData # <<>>
  /\ processedResults = <<>>
  /\ isProcessing' = TRUE
  /\ currentStep' = 0
  /\ run' = [RunIdle EXCEPT !.data = uploadedData[1], !.capturedStep = currentStep]
  /\ updateStepProgress(0, Whole(0), "processing")
  /\ pc' = "preprocess"
  /\ UNCHANGED <<uploadVars, indexVars, processedResults, timers, toast>>

\* Start AI Analysis is shown while !isProcessing && !processedResults
startProcessing ==
  /\ pageStep = "process"
  /\ uploadedData # <<>>
  /\ ~isProcessing
  /\ processedResults = <<>>
  /\ pc = "idle"
  /\ isProcessing' = TRUE
  /\ currentStep' = 0
  /\ run' = [RunIdle EXCEPT !.data = uploadedData[1], !.capturedStep = currentStep]
  /\ updateStepProgress(0, Whole(0), "processing")
  /\ pc' = "preprocess"
  /\ UNCHANGED <<uploadVars, indexVars, processedResults, timers, toast>>

\* the progress of the loop without the division by sequences.length
preprocessStepUndivided ==
  /\ pc = "preprocess"
  /\ run.i < Len(run.data)
  /\ run' = [run EXCEPT !.i = run.i + 1,
                        !.processedSequences = @ \o preprocessOne(run.data[run.i + 1])]
  /\ updateStepProgress(0, Whole((run.i + 1) * 100), "processing")
  /\ UNCHANGED <<uploadVars, indexVars, isProcessing, currentStep, processedResults,
                 pc, timers, toast>>

preprocessStep ==
  /\ pc = "preprocess"
  /\ run.i < Len(run.data)
  /\ run' = [run EXCEPT !.i = run.i + 1,
                        !.processedSequences = @ \o preprocessOne(run.data[run.i + 1])]
  /\ updateStepProgress(0, Frac((run.i + 1) * 100, Len(run.data)), "processing")
  /\ UNCHANGED <<uploadVars, indexVars, isProcessing, currentStep, processedResults,
                 pc, timers, toast>>

preprocessDone ==
  /\ pc = "preprocess"
  /\ run.i = Len(run.data)
  /\ updateStepProgress(0, Whole(100), "completed")
  /\ pc' = "preprocessed"
  /\ UNCHANGED <<uploadVars, indexVars, isProcessing, currentStep, processedResults,
                 run, timers, toast>>

\* the check of processedSequences.length left out: the run goes on to classify
processingContinues ==
  /\ pc = "preprocessed"
  /\ Len(run.processedSequences) = 0
  /\ currentStep' = 1
  /\ updateStepProgress(1, Whole(0), "processing")
  /\ run' = [run EXCEPT !.i = 0]
  /\ pc' = "classify"
  /\ UNCHANGED <<uploadVars, indexVars, isProcessing, processedResults, timers, toast>>

\* throw new Error(...) caught by the catch block, then finally
processingFailed ==
  /\ pc = "preprocessed"
  /\ Len(run.processedSequences) = 0
  /\ updateStepProgress(run.capturedStep, Whole(0), "error")
  /\ toast' = Toast("Processing Failed", "No sequences passed quality filtering", 0)
  /\ isProcessing' = FALSE
  /\ pc' = "idle"
  /\ run' = RunIdle
  /\ UNCHANGED <<uploadVars, indexVars, currentStep, processedResults, timers>>

classifyStart ==
  /\ pc = "preprocessed"
  /\ Len(run.processedSequences) # 0
  /\ currentStep' = 1
  /\ updateStepProgress(1, Whole(0), "processing")
  /\ run' = [run EXCEPT !.i = 0]
  /\ pc' = "classify"
  /\ UNCHANGED <<uploadVars, indexVars, isProcessing, processedResults, timers, toast>>

classifyStep ==
  /\ pc = "classify"
  /\ run.i < Len(run.processedSequences)
  /\ run' = [run EXCEPT !.i = run.i + 1,
                        !.taxonomyResults =
                           Append(@, classifyOne(run.processedSequences[run.i + 1]))]
  /\ updateStepProgress(1, Frac((run.i + 1) * 100, Len(run.processedSequences)),
                        "processing")
  /\ UNCHANGED <<uploadVars, indexVars, isProcessing, currentStep, processedResults,
                 pc, timers, toast>>

classifyDone ==
  /\ pc = "classify"
  /\ run.i = Len(run.processedSequences)
  /\ updateStepProgress(1, Whole(100), "completed")
  /\ pc' = "classified"
  /\ UNCHANGED <<uploadVars, indexVars, isProcessing, currentStep, processedResults,
                 run, timers, toast>>

clusterStart ==
  /\ pc = "classified"
  /\ currentStep' = 2
  /\ updateStepProgress(2, Whole(0), "processing")
  /\ run' = [run EXCEPT !.i = 0]
  /\ pc' = "cluster"
  /\ UNCHANGED <<uploadVars, indexVars, isProcessing, processedResults, timers, toast>>

\* unknownSequences, as positions in results
unknownSequences(results) == {k \in 1..Len(results) : isUnknown(results[k])}

\* the position in results of unknownSequences[index]
unknownAt(results, index) ==
  CHOOSE k \in unknownSequences(results) : unknownBefore(results, k - 1) = index

\* one turn of unknownSequences.forEach
clusterStep ==
  /\ pc = "cluster"
  /\ run.i < Cardinality(unknownSequences(run.taxonomyResults))
  /\ run' = [run EXCEPT !.i = run.i + 1,
                        !.taxonomyResults[unknownAt(run.taxonomyResults, run.i)].cluster_id =
                           <<clusterAssignment(run.i)>>]
  /\ updateStepProgress(2, Frac((run.i + 1) * 100,
                                Cardinality(unknownSequences(run.taxonomyResults))),
                        "processing")
  /\ UNCHANGED <<uploadVars, indexVars, isProcessing, currentStep, processedResults,
                 pc, timers, toast>>

clusterDone ==
  /\ pc = "cluster"
  /\ run.i = Cardinality(unknownSequences(run.taxonomyResults))
  /\ updateStepProgress(2, Whole(100), "completed")
  /\ pc' = "clustered"
  /\ UNCHANGED <<uploadVars, indexVars, isProcessing, currentStep, processedResults,
                 run, timers, toast>>

\* metricsStart entered without waiting for the clustering stage
metricsStartSkipping ==
  /\ pc \in {"classified", "clustered"}
  /\ currentStep' = 3
  /\ updateStepProgress(3, Whole(0), "processing")
  /\ pc' = "metrics0"
  /\ UNCHANGED <<uploadVars, indexVars, isProcessing, processedResults, run, timers,
                 toast>>

metricsStart ==
  /\ pc = "clustered"
  /\ currentStep' = 3
  /\ updateStepProgress(3, Whole(0), "processing")
  /\ pc' = "metrics0"
  /\ UNCHANGED <<uploadVars, indexVars, isProcessing, processedResults, run, timers,
                 toast>>

\* updateStepProgress(3, 25 | 50 | 75, 'processing')
metricsProgress ==
  /\ pc \in {"metrics0", "metrics25", "metrics50"}
  /\ LET p == CASE pc = "metrics0" -> 25 [] pc = "metrics25" -> 50 [] pc = "metrics50" -> 75
     IN /\ updateStepProgress(3, Whole(p), "processing")
        /\ pc' = CASE p = 25 -> "metrics25" [] p = 50 -> "metrics50" [] p = 75 -> "metrics75"
  /\ UNCHANGED <<uploadVars, indexVars, isProcessing, currentStep, processedResults,
                 run, timers, toast>>

metricsDone ==
  /\ pc = "metrics75"
  /\ updateStepProgress(3, Whole(100), "completed")
  /\ run' = [run EXCEPT !.biodiversityMetrics =
               <<calculateBiodiversity(run.processedSequences, run.taxonomyResults)>>]
  /\ pc' = "computed"
  /\ UNCHANGED <<uploadVars, indexVars, isProcessing, currentStep, processedResults,
                 timers, toast>>

finalResults ==
  [originalData |-> run.data,
   processedSequences |-> run.processedSequences,
   taxonomyResults |-> run.taxonomyResults,
   biodiversityMetrics |-> run.biodiversityMetrics[1]]

\* setProcessedResults, toast, setTimeout, then finally
processingFinished ==
  /\ pc = "computed"
  /\ processedResults' = <<finalResults>>
  /\ toast' = Toast("Processing Complete", "Successfully processed sequences",
                    Len(run.processedSequences))
  /\ timers' = Append(timers, finalResults)
  /\ isProcessing' = FALSE
  /\ pc' = "idle"
  /\ run' = RunIdle
  /\ UNCHANGED <<uploadVars, indexVars, currentStep, overallProgress, steps>>

\* the callback of a setInterval in place of the setTimeout: it stays pending
timerFiredRepeating ==
  /\ timers # <<>>
  /\ handleDataProcessed(Head(timers))
  /\ UNCHANGED <<uploadVars, pc, run, toast, timers>>

\* the setTimeout callback: onProcessingComplete(finalResults)
timerFired ==
  /\ timers # <<>>
  /\ handleDataProcessed(Head(timers))
  /\ timers' = Tail(timers)
  /\ UNCHANGED <<uploadVars, pc, run, toast>>

\* the Sample Location select: onValueChange={setSelectedLocation}
setSelectedLocation(location) ==
  /\ pageStep = "analyze"
  /\ processedData # <<>>
  /\ \E k \in 1..Len(locationsWithAll(processedData[1])) :
       location = locationsWithAll(processedData[1])[k]
  /\ dashboard' = [dashboard EXCEPT !.selectedLocation = location]
  /\ UNCHANGED <<uploadVars, pageStep, uploadedData, processedData, uploadedFrom,
                 exported, procVars, runVars>>

\* the Depth Range select: onValueChange={setSelectedDepthRange}
setSelectedDepthRange(range) ==
  /\ pageStep = "analyze"
  /\ processedData # <<>>
  /\ \E k \in 1..Len(depthRanges(processedData[1])) :
       range = depthRanges(processedData[1])[k]
  /\ dashboard' = [dashboard EXCEPT !.selectedDepthRange = range]
  /\ UNCHANGED <<uploadVars, pageStep, uploadedData, processedData, uploadedFrom,
                 exported, procVars, runVars>>

\* the items of the Sample Location select
locationItems ==
  IF processedData = <<>> THEN {}
  ELSE {locationsWithAll(processedData[1])[k] :
          k \in 1..Len(locationsWithAll(processedData[1]))}

\* the items of the Depth Range select
depthRangeItems ==
  IF processedData = <<>> THEN {}
  ELSE {depthRanges(processedData[1])[k] : k \in 1..Len(depthRanges(processedData[1]))}

---------------------------------------------------------------------------
(* The page: a user at the FileUpload, then the DataProcessor *)

Next ==
  \/ \E file \in FileNames : handleFileSelect(file)
  \/ handleFileSelectNone
  \/ \E file \in FileNames : handleDrop(file)
  \/ \E p \in BagToSet(parses) : processFileComplete(p)
  \/ \E p \in BagToSet(parses) : processFileError(p)
  \/ handleConfirmUpload
  \/ \E p \in BagToSet(parses) : confirmComplete(p)
  \/ startProcessing
  \/ preprocessStep
  \/ preprocessDone
  \/ processingFailed
  \/ classifyStart
  \/ classifyStep
  \/ classifyDone
  \/ clusterStart
  \/ clusterStep
  \/ clusterDone
  \/ metricsStart
  \/ metricsProgress
  \/ metricsDone
  \/ processingFinished
  \/ timerFired
  \/ \E location \in locationItems : setSelectedLocation(location)
  \/ \E range \in depthRangeItems : setSelectedDepthRange(range)

Spec == Init /\ [][Next]_vars

\* a pending setTimeout callback is run by the event loop
SpecFair == Spec /\ WF_vars(timerFired)

---------------------------------------------------------------------------
(* The pipeline over generated datasets *)

MaxRows == 3


\* rows a file can hold: repeated ids, shared taxa, rows the validator rejects
\* and rows preprocessing drops
RowPool ==
  {Row(<<"S", "1">>, seqLow, <<"5">>, <<"A">>, <<"0">>),
   Row(<<"S", "1">>, seqHigh, <<"9">>, <<"B">>, <<"4">>),
   Row(<<"S", "2">>, seqEdge, <<"7">>, <<"A">>, <<"2", ".", "5">>),
   Row(<<"S", "2">>, seqLow, <<"6">>, <<" ", "B">>, <<"1", "0">>),
   Row(<<"S", "3">>, seqTaxon4, <<"1", "2">>, <<"B">>, <<"1", "2">>),
   Row(<<"S", "4">>, seqHigh, <<"4">>, <<"C">>, <<"1">>),
   Row(<<"S", "5">>, seqShort, <<"9">>, <<"A">>, <<"1">>),
   Row(<<"S", "6">>, seqBad, <<"9">>, <<"A">>, <<"1">>)}

\* the parsed files of 1..MaxRows rows
Datasets == UNION {[1..n -> RowPool] : n \in 1..MaxRows}

\* the page after handleDataUpload(validateData(rows).validData)
InitBatch ==
  /\ UploadInit
  /\ parses = EmptyBag
  /\ pageStep = "process"
  /\ \E rows \in Datasets : uploadedData = <<validateData(rows).validData>>
  /\ processedData = <<>>
  /\ uploadedFrom = <<>>
  /\ exported = ExportInit
  /\ dashboard = DashboardInit
  /\ ProcInit
  /\ pc = "idle"
  /\ run = RunIdle
  /\ timers = <<>>
  /\ toast = <<>>

NextBatch ==
  \/ startProcessing
  \/ preprocessStep
  \/ preprocessDone
  \/ processingFailed
  \/ classifyStart
  \/ classifyStep
  \/ classifyDone
  \/ clusterStart
  \/ clusterStep
  \/ clusterDone
  \/ metricsStart
  \/ metricsProgress
  \/ metricsDone
  \/ processingFinished
  \/ timerFired

SpecBatch == InitBatch /\ [][NextBatch]_vars

---------------------------------------------------------------------------
(* calculateBiodiversity over the arguments its signature admits *)

MaxTaxa == 3

MaxReads == 3

\* sequences: eDNAData[] of n records with distinct ids and the read counts
\* given
MetricSequences(reads) ==
  [k \in 1..Len(reads) |->
     [sequence_id |-> <<"S", <<"1", "2", "3", "4", "5", "6", "7", "8", "9">>[k]>>,
      raw_sequence |-> ToUpperCase(seqHigh),
      read_count |-> reads[k],
      sample_location |-> <<"A">>,
      depth |-> 0]]

\* taxonomyResults: one result per record, with the taxon given
MetricResults(sequences, taxa) ==
  [k \in 1..Len(sequences) |->
     [sequence_id |-> sequences[k].sequence_id,
      predicted_taxon |-> knownTaxa[taxa[k]],
      confidence |-> confidenceOf(ToUpperCase(seqHigh)),
      cluster_id |-> <<>>]]

\* startProcessing has come to `await calculateBiodiversity(processedSequences,
\* clusteredResults)` with 0..MaxTaxa records of read counts 0..MaxReads;
\* record k has one of the first k taxa
InitMetrics ==
  /\ UploadInit
  /\ parses = EmptyBag
  /\ pageStep = "process"
  /\ processedData = <<>>
  /\ uploadedFrom = <<>>
  /\ exported = ExportInit
  /\ dashboard = DashboardInit
  /\ isProcessing = TRUE
  /\ currentStep = 2
  /\ overallProgress = Whole(75)
  /\ steps = [k \in 1..4 |-> IF k <= 3
                              THEN [progress |-> Whole(100), status |-> "completed"]
                              ELSE StepInit]
  /\ processedResults = <<>>
  /\ pc = "clustered"
  /\ timers = <<>>
  /\ toast = <<>>
  /\ \E n \in 0..MaxTaxa :
       \E reads \in [1..n -> 0..MaxReads] :
         \E taxa \in {t \in [1..n -> 1..MaxTaxa] : \A k \in 1..n : t[k] <= k} :
           LET sequences == MetricSequences(reads)
           IN /\ uploadedData = <<sequences>>
              /\ run = [RunIdle EXCEPT !.data = sequences,
                                       !.processedSequences = sequences,
                                       !.taxonomyResults = MetricResults(sequences, taxa)]

NextMetrics ==
  \/ metricsStart
  \/ metricsProgress
  \/ metricsDone
  \/ processingFinished
  \/ timerFired

SpecMetrics == InitMetrics /\ [][NextMetrics]_vars

---------------------------------------------------------------------------
(* ExportResults over the bundles of generated datasets *)

\* handleOptionChange(option, checked): onCheckedChange of a checkbox showing
\* exportOptions[option] passes the other value
handleOptionChange(option, checked) ==
  /\ pageStep = "export"
  /\ processedData # <<>>
  /\ checked # exported[option]
  /\ exported' = [exported EXCEPT ![option] = checked]
  /\ UNCHANGED <<uploadVars, pageStep, uploadedData, processedData, uploadedFrom,
                 dashboard, procVars, runVars>>

\* handleExport(exportType): the package holds the three tables, the
\* individual export holds each table whose option is checked
handleExport(exportType) ==
  /\ pageStep = "export"
  /\ processedData # <<>>
  /\ exported' = [exported EXCEPT
                    !.downloads =
                      IF exportType = "package" \/ exported.abundanceMatrix
                      THEN <<generateAbundanceMatrix(processedData[1])>>
                      ELSE <<>>,
                    !.taxonomyData =
                      IF exportType = "package" \/ exported.taxonomyResults
                      THEN <<generateTaxonomyResults(processedData[1])>>
                      ELSE <<>>,
                    !.biodiversityData =
                      IF exportType = "package" \/ exported.biodiversityMetrics
                      THEN <<generateBiodiversityReport(processedData[1])>>
                      ELSE <<>>]
  /\ UNCHANGED <<uploadVars, pageStep, uploadedData, processedData, uploadedFrom,
                 dashboard, procVars, runVars>>

\* the export tab showing ExportResults with the bundle of a completed run
InitExport ==
  /\ UploadInit
  /\ parses = EmptyBag
  /\ pageStep = "export"
  /\ \E rows \in Datasets :
        /\ preprocessSequences(validateData(rows).validData) # <<>>
        /\ uploadedData = <<validateData(rows).validData>>
        /\ processedData = <<ProcessedDataOf(validateData(rows).validData)>>
  /\ uploadedFrom = <<>>
  /\ exported = ExportInit
  /\ dashboard = DashboardInit
  /\ ProcInit
  /\ pc = "idle"
  /\ run = RunIdle
  /\ timers = <<>>
  /\ toast = <<>>

NextExport ==
  \/ \E option \in {"abundanceMatrix", "taxonomyResults", "biodiversityMetrics"} :
       \E checked \in BOOLEAN : handleOptionChange(option, checked)
  \/ \E exportType \in {"individual", "package"} : handleExport(exportType)

SpecExport == InitExport /\ [][NextExport]_vars

---------------------------------------------------------------------------
(* BiodiversityDashboard over the bundles of generated datasets *)

\* the analyze tab showing BiodiversityDashboard with the bundle of a
\* completed run
InitDashboard ==
  /\ UploadInit
  /\ parses = EmptyBag
  /\ pageStep = "analyze"
  /\ \E rows \in Datasets :
        /\ preprocessSequences(validateData(rows).validData) # <<>>
        /\ uploadedData = <<validateData(rows).validData>>
        /\ processedData = <<ProcessedDataOf(validateData(rows).validData)>>
  /\ uploadedFrom = <<>>
  /\ exported = ExportInit
  /\ dashboard = DashboardInit
  /\ ProcInit
  /\ pc = "idle"
  /\ run = RunIdle
  /\ timers = <<>>
  /\ toast = <<>>

NextDashboard ==
  \/ \E location \in locationItems : setSelectedLocation(location)
  \/ \E range \in depthRangeItems : setSelectedDepthRange(range)

SpecDashboard == InitDashboard /\ [][NextDashboard]_vars

---------------------------------------------------------------------------
(* Properties *)

StepCompleted(j) == steps[j].status = "completed" /\ steps[j].progress = Whole(100)

\* the stages before the current one are completed, those after it pending
StagesInOrder ==
  isProcessing =>
    /\ steps[currentStep + 1].status \in {"processing", "completed"}
    /\ \A j \in 1..currentStep : StepCompleted(j)
    /\ \A j \in (currentStep + 2)..4 : steps[j] = StepInit

\* a stage is left only when its loop has covered its whole input
StagesWhole ==
  /\ pc = "preprocessed" => run.i = Len(run.data) /\ StepCompleted(1)
  /\ pc = "classified" =>
        /\ Len(run.taxonomyResults) = Len(run.processedSequences)
        /\ StepCompleted(2)
  /\ pc = "clustered" =>
        /\ run.i = Cardinality(unknownSequences(run.taxonomyResults))
        /\ StepCompleted(3)
  /\ processedResults # <<>> => \A j \in 1..4 : StepCompleted(j)

\* within a run the current stage moves one forward at a time, out of a
\* completed stage, and a completed stage is not touched again
StagesForward ==
  (isProcessing /\ isProcessing') =>
    /\ currentStep' \in {currentStep, currentStep + 1}
    /\ currentStep' = currentStep + 1 =>
          StepCompleted(currentStep + 1) /\ steps'[currentStep' + 1].status = "processing"
    /\ \A j \in 1..4 : StepCompleted(j) => steps'[j] = steps[j]

\* C1: in every run of startProcessing the stages are entered in the order
\* Preprocessing, Classifying, Clustering, ComputingMetrics, Complete; a stage
\* starts only after the previous one is completed at progress 100 over its
\* whole input, none is skipped, none is entered again or run backwards.
C1_StageOrder == [](StagesInOrder /\ StagesWhole) /\ [][StagesForward]_vars

\* a run that went through the four stages over several records and completed
C1_Witness ==
  /\ processedResults # <<>>
  /\ Len(processedResults[1].processedSequences) > 1
  /\ \A j \in 1..4 : StepCompleted(j)
  /\ currentStep = 3

FailedToast == Toast("Processing Failed", "No sequences passed quality filtering", 0)

\* the step out of a preprocessing stage that kept no record
EmptyRunFails ==
  (pc = "preprocessed" /\ Len(run.processedSequences) = 0 /\ pc' # pc) =>
    /\ pc' = "idle" /\ ~isProcessing'
    /\ toast' = FailedToast
    /\ steps'[1].status = "error"
    /\ \A j \in 2..4 : steps'[j] = StepInit
    /\ processedResults' = <<>>
    /\ UNCHANGED <<timers, processedData, pageStep>>

\* a failed run leaves no bundle and no pending onProcessingComplete
FailedRunLeavesNothing ==
  (pc = "idle" /\ steps[1].status = "error") =>
    /\ \A j \in 2..4 : steps[j] = StepInit
    /\ processedResults = <<>>
    /\ timers = <<>>
    /\ pageStep = "process"

\* C2: when preprocessing yields zero records the run fails with the reason
\* "No sequences passed quality filtering"; classification, clustering and
\* metrics stay pending, no bundle is stored and onProcessingComplete is not
\* called for that run.
C2_EmptyPreprocessFails == []FailedRunLeavesNothing /\ [][EmptyRunFails]_vars

\* a run over uploaded records, none of which passed the filter, has failed
C2_Witness ==
  /\ pc = "idle" /\ steps[1].status = "error" /\ toast = FailedToast
  /\ uploadedData # <<>> /\ Len(uploadedData[1]) > 0
  /\ preprocessSequences(uploadedData[1]) = <<>>

IsTrimmed(s) == s # undefined /\ s # <<>> /\ Trim(s) = s

\* the five field constraints of a valid record
ValidRecord(r) ==
  /\ IsTrimmed(r.sequence_id)
  /\ r.raw_sequence # undefined /\ r.raw_sequence # <<>>
  /\ \A k \in 1..Len(r.raw_sequence) : r.raw_sequence[k] \in {"A", "T", "C", "G", "N"}
  /\ r.read_count \in Int /\ r.read_count >= 1
  /\ IsTrimmed(r.sample_location)
  /\ r.depth \in Int /\ r.depth >= 0

\* C3: every record handed over by onDataUpload, and so every record a run
\* works on, has a non-empty trimmed sequence_id, a non-empty upper-case
\* raw_sequence over A, T, C, G, N, an integer read_count >= 1, a non-empty
\* trimmed sample_location and a depth >= 0.
C3_OnlyValidRecordsUploaded ==
  /\ uploadedData # <<>> => \A k \in 1..Len(uploadedData[1]) : ValidRecord(uploadedData[1][k])
  /\ \A k \in 1..Len(run.data) : ValidRecord(run.data[k])

\* the records of a file with invalid rows were handed over: the valid row
\* alone, its sequence in upper case
C3_Witness ==
  /\ uploadedFrom = <<"mixed">>
  /\ ~Validated["mixed"].isValid
  /\ uploadedData # <<>> /\ Len(uploadedData[1]) = 1
  /\ uploadedData[1][1].raw_sequence = ToUpperCase(seqHigh)
  /\ pc = "classify"

\* a file with some invalid row and at least one valid row
IsMixed(f) == ~Validated[f].isValid /\ Len(Validated[f].validData) > 0

\* C4 as stated: once a file with invalid rows and at least one valid row has
\* been validated and its errors recorded, Process Dataset is offered, so the
\* pipeline can be started on its valid records.
C4_MixedDatasetCanStart ==
  \A f \in FileNames :
    (/\ IsMixed(f) /\ pageStep = "upload" /\ fileInput = <<f>>
     /\ ~uploadIsProcessing /\ validationErrors = Validated[f].errors)
      => previewData # <<>>

\* the preview, and with it Process Dataset, is only ever set from a file
\* without any error
PreviewFromValidFile ==
  previewData # <<>> =>
    \E f \in FileNames :
      Validated[f].isValid /\ previewData = <<firstFive(Validated[f].validData)>>

\* the records handed over from a file are its valid rows, in order
UploadExcludesInvalidRows ==
  uploadedFrom # <<>> => uploadedData = <<Validated[uploadedFrom[1]].validData>>

\* the complete callback of processFile on a file with errors records them and
\* leaves the preview and the page as they were
InvalidFileRejected ==
  \A p \in BagToSet(parses) :
    (/\ p.kind = "process" /\ ~Validated[p.file].isValid
     /\ uploadIsProcessing /\ ~uploadIsProcessing' /\ uploadProgress' = 100)
      => /\ validationErrors' = Validated[p.file].errors
         /\ Len(validationErrors') \in 1..ErrorCap
         /\ UNCHANGED <<previewData, indexVars, procVars, runVars>>

\* C4, amended: the invalid rows of a dataset are left out of the valid
\* records and their reasons are recorded, but a dataset with any invalid row
\* is rejected by processFile: no preview is set from it, and nothing is
\* handed to the pipeline by its validation.
C4_MixedDatasetRejected ==
  [](PreviewFromValidFile /\ UploadExcludesInvalidRows) /\ [][InvalidFileRejected]_vars

\* a file with five invalid rows and one valid row was validated on a fresh
\* page: its errors are shown and Process Dataset is not
C4_Witness ==
  /\ IsMixed("mixed") /\ fileInput = <<"mixed">> /\ pageStep = "upload"
  /\ ~uploadIsProcessing /\ uploadProgress = 100
  /\ validationErrors = Validated["mixed"].errors /\ Len(validationErrors) = 5
  /\ previewData = <<>>

\* C5: for an empty row sequence validateData returns no valid record and the
\* one error "File is empty", and the pipeline never starts from that upload:
\* onDataUpload is not called with the rows of an empty file and no stage
\* runs on them.
C5_EmptyFileNeverStarts ==
  /\ validateData(<<>>) =
       [isValid |-> FALSE, errors |-> <<Err(0, "File is empty")>>, validData |-> <<>>]
  /\ uploadedFrom # <<>> => FileRows(uploadedFrom[1]) # <<>>
  /\ pc # "idle" => run.data # <<>>

\* results is one-to-one with sequences by position, no cluster assigned
OneToOne(sequences, results) ==
  /\ Len(results) = Len(sequences)
  /\ \A k \in 1..Len(results) :
        /\ results[k].sequence_id = sequences[k].sequence_id
        /\ results[k].cluster_id = <<>>

\* C6: after the Classifying stage the result list has the length of the
\* preprocessed list, the i-th result carries the sequence_id of the i-th
\* preprocessed record, and no result has a cluster_id.
C6_ClassificationOneToOne ==
  /\ pc = "classify" =>
        OneToOne(SubSeq(run.processedSequences, 1, run.i), run.taxonomyResults)
  /\ pc = "classified" => OneToOne(run.processedSequences, run.taxonomyResults)

\* Classifying has finished over three records, two of them with the same
\* sequence_id and one of low confidence
C6_Witness ==
  /\ pc = "classified"
  /\ Len(run.taxonomyResults) = 3
  /\ run.taxonomyResults[1].sequence_id = run.taxonomyResults[2].sequence_id
  /\ \E k \in 1..3 : run.taxonomyResults[k].confidence < 700

\* cluster_id is set exactly on the results of confidence below 0.7
ClusteredBelowThreshold(results) ==
  \A k \in 1..Len(results) : (results[k].cluster_id # <<>>) <=> (results[k].confidence < 700)

\* C7: after the Clustering stage a result has a cluster_id if and only if
\* its confidence is below 0.7; a result at exactly 0.7 or above has none.
C7_ClusteredIffLowConfidence ==
  /\ pc \in {"clustered", "metrics0", "metrics25", "metrics50", "metrics75", "computed"}
       => ClusteredBelowThreshold(run.taxonomyResults)
  /\ processedResults # <<>> => ClusteredBelowThreshold(processedResults[1].taxonomyResults)
  /\ processedData # <<>> => ClusteredBelowThreshold(processedData[1].taxonomyResults)

\* Clustering has finished over results of confidence 0.6 (clustered), exactly
\* 0.7 and 0.99 (both left without cluster_id)
C7_Witness ==
  /\ pc = "clustered"
  /\ \E k \in 1..Len(run.taxonomyResults) :
        run.taxonomyResults[k].confidence = 600 /\ run.taxonomyResults[k].cluster_id # <<>>
  /\ \E k \in 1..Len(run.taxonomyResults) :
        run.taxonomyResults[k].confidence = 700 /\ run.taxonomyResults[k].cluster_id = <<>>
  /\ \E k \in 1..Len(run.taxonomyResults) :
        run.taxonomyResults[k].confidence = 990 /\ run.taxonomyResults[k].cluster_id = <<>>

\* the sample_location values of the records of the bundle
LocationSet(data) ==
  {data.processedSequences[k].sample_location : k \in 1..Len(data.processedSequences)}

\* the header names every location once, and every row has a number under
\* every location column
Rectangular(matrix, data) ==
  /\ Len(matrix[1]) = 1 + Cardinality(LocationSet(data))
  /\ {matrix[1][c] : c \in 2..Len(matrix[1])} = LocationSet(data)
  /\ \A n \in 2..Len(matrix) :
        /\ Len(matrix[n]) = Len(matrix[1])
        /\ \A c \in 2..Len(matrix[n]) : matrix[n][c] \in Nat

\* C8: in the abundance matrix every taxon row has a cell, possibly 0, for
\* every distinct sample_location of the records; no cell is missing and every
\* row is as long as the header.
C8_MatrixRectangular ==
  exported.downloads # <<>> => Rectangular(exported.downloads[1], processedData[1])

\* a matrix of several taxa over several locations with a cell that is 0
C8_Witness ==
  /\ exported.downloads # <<>>
  /\ Len(exported.downloads[1]) >= 3
  /\ Len(exported.downloads[1][1]) >= 3
  /\ \E n \in 2..Len(exported.downloads[1]) :
        \E c \in 2..Len(exported.downloads[1][n]) : exported.downloads[1][n][c] = 0

\* the total read_count of the records at the positions in S
Reads(data, S) ==
  SumOver([k \in 1..Len(data.processedSequences) |-> data.processedSequences[k].read_count], S)

\* each row sums to the reads of the records classified to its taxon, each
\* column to the reads of the records at its location
SumsMatch(matrix, data) ==
  /\ \A n \in 2..Len(matrix) :
        SumOver(matrix[n], 2..Len(matrix[n]))
          = Reads(data, {k \in 1..Len(data.taxonomyResults) :
                           data.taxonomyResults[k].predicted_taxon = matrix[n][1]})
  /\ \A c \in 2..Len(matrix[1]) :
        SumOver([n \in 2..Len(matrix) |-> matrix[n][c]], 2..Len(matrix))
          = Reads(data, {k \in 1..Len(data.processedSequences) :
                           data.processedSequences[k].sample_location = matrix[1][c]})

\* C9: in the abundance matrix of any dataset, sequence_id unique or not, each
\* row sum is the total read_count of the records classified to that taxon and
\* each column sum the total read_count of the records at that location.
C9_MatrixSums ==
  exported.downloads # <<>> => SumsMatch(exported.downloads[1], processedData[1])

\* 0 <= simpson_index <= 1, shannon_index >= 0, chao1_estimator >= species_richness
MetricsInBounds(m) ==
  /\ ~m.simpson_index.isNaN /\ m.simpson_index.value >= 0 /\ m.simpson_index.value <= 1000
  /\ ~m.shannon_index.isNaN /\ m.shannon_index.value >= 0
  /\ m.chao1_estimator >= 10 * m.species_richness

\* C10: the metrics computed for a non-empty classified set satisfy
\* 0 <= simpson_index <= 1, chao1_estimator >= species_richness and
\* shannon_index >= 0.
C10_MetricsBounds ==
  /\ run.biodiversityMetrics # <<>> => MetricsInBounds(run.biodiversityMetrics[1])
  /\ processedResults # <<>> => MetricsInBounds(processedResults[1].biodiversityMetrics)
  /\ processedData # <<>> => MetricsInBounds(processedData[1].biodiversityMetrics)

\* metrics were computed over three records of three taxa with unequal reads
C10_Witness ==
  /\ pc = "computed"
  /\ Len(run.taxonomyResults) = 3
  /\ run.biodiversityMetrics[1].species_richness = 3
  /\ run.biodiversityMetrics[1].simpson_index.value \in 1..999
  /\ run.biodiversityMetrics[1].shannon_index.value > 0

ProgressInRange(j) ==
  FracLeq(Whole(0), steps'[j].progress) /\ FracLeq(steps'[j].progress, Whole(100))

\* C11 as stated: from one update of a run to the next, the failing one
\* included, every stage's progress stays in [0, 100] and does not decrease.
C11_ProgressNeverDecreases ==
  [][pc # "idle" =>
       \A j \in 1..4 : ProgressInRange(j) /\ FracLeq(steps[j].progress, steps'[j].progress)]_vars

\* the step of a run into its catch block
RunFails == pc # "idle" /\ pc' = "idle" /\ processedResults' = <<>>

\* a run that goes on never lowers a progress value; the catch block puts the
\* step currentStep named at the click, the first, back to 0 as error
ProgressMonotoneUntilFailure ==
  pc # "idle" =>
    /\ \A j \in 1..4 : ProgressInRange(j)
    /\ ~RunFails => \A j \in 1..4 : FracLeq(steps[j].progress, steps'[j].progress)
    /\ RunFails =>
          /\ steps[1].progress = Whole(100)
          /\ steps' = [steps EXCEPT ![1] = [progress |-> Whole(0), status |-> "error"]]

\* C11, amended: each stage's progress stays in [0, 100] and never decreases
\* from one update to the next while the run goes on; when the run fails, the
\* catch block resets the progress of the preprocessing step from 100 to 0
\* (status error) and leaves the other stages as they were.
C11_ProgressMonotoneUntilFailure == [][ProgressMonotoneUntilFailure]_vars

\* a run over several records has failed: the first step back at 0
C11_Witness ==
  /\ pc = "idle" /\ toast = FailedToast
  /\ steps[1] = [progress |-> Whole(0), status |-> "error"]
  /\ uploadedData # <<>> /\ Len(uploadedData[1]) >= 2

\* the steps whose entry an update has changed
Updated == {j \in 1..4 : steps'[j] # steps[j]}

\* (100 * k + p) / 4 for the 0-based stage k and the progress p = <<n, d>>
MeanProgress(k, p) == Frac(100 * k * p[2] + p[1], 4 * p[2])

\* an update of one stage sets the overall progress to (100 * k + p) / 4
OverallIsMean ==
  (pc # "idle" \/ pc' # "idle") /\ Updated # {} =>
    \E j \in 1..4 :
      /\ Updated = {j}
      /\ overallProgress' = MeanProgress(j - 1, steps'[j].progress)

\* C12: after every update of the 0-based stage k to progress p the overall
\* progress is (100 * k + p) / 4, the mean of the four stages with the stages
\* before k counted as 100; it is 100 exactly when the last stage reports 100.
C12_OverallProgressIsMean ==
  /\ [][OverallIsMean]_vars
  /\ [](overallProgress = Whole(100) <=> steps[4].progress = Whole(100))

\* the third stage is half-way through its two low-confidence results:
\* (200 + 50) / 4
C12_Witness ==
  /\ pc = "cluster"
  /\ steps[3].progress = Whole(50)
  /\ overallProgress = <<125, 2>>

\* a run works on the records the data prop held at the click, to its end
InputKept ==
  /\ (pc = "idle" /\ pc' # "idle") => run'.data = uploadedData[1]
  /\ (pc # "idle" /\ pc' # "idle") => run'.data = run.data

\* setProcessedResults stores, and schedules once, the bundle of this run
BundleStored ==
  (processedResults' # processedResults /\ processedResults' # <<>>) =>
    LET b == processedResults'[1]
    IN /\ \A j \in 1..4 : StepCompleted(j)
       /\ b.originalData = run.data
       /\ b.processedSequences = preprocessSequences(run.data)
       /\ b.taxonomyResults = performClustering(classifyTaxonomy(b.processedSequences))
       /\ b.biodiversityMetrics = run.biodiversityMetrics[1]
       /\ timers' = Append(timers, b)

\* onProcessingComplete is called by a pending callback alone, which is then gone
BundleDelivered ==
  /\ processedData' # processedData => Len(timers') < Len(timers)
  /\ Len(timers') < Len(timers) =>
        processedData' = <<Head(timers)>> /\ timers' = Tail(timers)
  /\ Len(timers') > Len(timers) => processedResults' # processedResults

\* C13: a successful run delivers its bundle {originalData, processedSequences,
\* taxonomyResults, biodiversityMetrics} through onProcessingComplete exactly
\* once, after all four stages have completed; originalData is the input of
\* the run unchanged and taxonomyResults the clustered classification of the
\* preprocessed records of that run.
C13_BundleDeliveredOnce ==
  /\ [][InputKept /\ BundleStored /\ BundleDelivered]_vars
  /\ [](Len(timers) <= 1)
  /\ (timers # <<>>) ~> (timers = <<>>)

\* the bundle of a run over several records, one of them clustered, has
\* reached the page
C13_Witness ==
  /\ pageStep = "analyze" /\ timers = <<>>
  /\ processedData # <<>>
  /\ Len(processedData[1].processedSequences) >= 2
  /\ processedData[1].originalData = uploadedData[1]
  /\ \E k \in 1..Len(processedData[1].taxonomyResults) :
        processedData[1].taxonomyResults[k].cluster_id # <<>>

\* a run can only begin at Preprocessing, with nothing of an earlier run,
\* over the uploaded records, and not once a bundle is stored
RunStartsFresh ==
  (pc = "idle" /\ pc' # "idle") =>
    /\ pc' = "preprocess" /\ currentStep' = 0
    /\ processedResults = <<>> /\ ~isProcessing
    /\ run'.data = uploadedData[1] /\ run'.i = 0
    /\ run'.processedSequences = <<>> /\ run'.taxonomyResults = <<>>
    /\ run'.biodiversityMetrics = <<>>
    /\ steps'[1] = [progress |-> Whole(0), status |-> "processing"]

\* the results of a run that fails are dropped
FailureDropsResults == RunFails => run' = RunIdle /\ processedResults' = <<>>

\* a later stage is entered from a run in progress only
NoEntryFromIdle ==
  (pc' \notin {"idle", "preprocess"} /\ pc' # pc) => pc # "idle"

\* C14: there is no retry or resume. After a failed run the only way on is a
\* new run, which begins at Preprocessing over the uploaded input with none of
\* the failed run's partial results; no run continues from a later stage, and
\* once a run has completed Start AI Analysis is not offered again.
C14_NoRetryNoResume ==
  /\ [][RunStartsFresh /\ FailureDropsResults /\ NoEntryFromIdle]_vars
  /\ [](processedResults # <<>> => pc = "idle" /\ ~ENABLED startProcessing)

\* a new run has been started after a failed one and is at Preprocessing
C14_Witness ==
  /\ pc = "preprocess" /\ run.i = 1
  /\ toast = FailedToast
  /\ steps[1].status = "processing"
  /\ \A j \in 2..4 : steps[j] = StepInit
  /\ run.data = uploadedData[1]

IsBase(c) == c \in {"A", "T", "C", "G", "N", "a", "t", "c", "g", "n"}

\* 10 <= len(raw_sequence) <= 500, read_count >= 5, and a base is left after
\* the characters outside A, T, C, G, N are removed
KeptByPolicy(rec) ==
  /\ Len(rec.raw_sequence) >= 10 /\ Len(rec.raw_sequence) <= 500
  /\ rec.read_count >= 5
  /\ \E k \in 1..Len(rec.raw_sequence) : IsBase(rec.raw_sequence[k])

\* one turn of the preprocessing loop adds the record it looks at, cleaned,
\* if and only if the policy keeps it
PreprocessorKeepsByPolicy ==
  (pc = "preprocess" /\ run'.i = run.i + 1) =>
    LET rec == run.data[run.i + 1]
    IN IF KeptByPolicy(rec)
       THEN /\ Len(run'.processedSequences) = Len(run.processedSequences) + 1
            /\ SubSeq(run'.processedSequences, 1, Len(run.processedSequences))
                 = run.processedSequences
            /\ LET kept == run'.processedSequences[Len(run'.processedSequences)]
               IN /\ kept.raw_sequence = SelectSeq(rec.raw_sequence, IsBase)
                  /\ kept = [rec EXCEPT !.raw_sequence = kept.raw_sequence]
       ELSE run'.processedSequences = run.processedSequences

\* C15: the preprocessor keeps a record if and only if
\* 10 <= len(raw_sequence) <= 500, read_count >= 5 and the sequence is not
\* empty once cleaned; a valid record with read_count 1..4 or a sequence
\* shorter than 10 is dropped.
C15_PreprocessorPolicy == [][PreprocessorKeepsByPolicy]_vars

\* preprocessing has dropped four valid records: short with 3 reads, long
\* enough with 4 reads, short with 9 reads, 501 bases with 9 reads
C15_Witness ==
  /\ pc = "preprocessed"
  /\ Len(run.data) = 4 /\ \A k \in 1..4 : ValidRecord(run.data[k])
  /\ Len(run.data[1].raw_sequence) = 4 /\ run.data[1].read_count = 3
  /\ Len(run.data[2].raw_sequence) = 10 /\ run.data[2].read_count = 4
  /\ Len(run.data[3].raw_sequence) = 4 /\ run.data[3].read_count = 9
  /\ Len(run.data[4].raw_sequence) = 501 /\ run.data[4].read_count = 9
  /\ run.processedSequences = <<>>

\* out is inp with some positions left out: the first element of out is
\* matched with its first occurrence in inp, the rest with what follows it
RECURSIVE Embeds(_, _)
Embeds(out, inp) ==
  IF out = <<>> THEN TRUE
  ELSE IF inp = <<>> THEN FALSE
  ELSE IF Head(out) = Head(inp) THEN Embeds(Tail(out), Tail(inp))
  ELSE Embeds(out, Tail(inp))

\* the rows of a file as records, one per row, valid or not
RowsAsRecords(rows) == [k \in 1..Len(rows) |-> RowRecord(rows[k])]

\* the records with the characters outside A, T, C, G, N removed
Cleaned(records) ==
  [k \in 1..Len(records) |->
    [records[k] EXCEPT !.raw_sequence = SelectSeq(records[k].raw_sequence, IsBase)]]

\* the validator's output lies in the file's rows by position, and the
\* preprocessor's output in its input, during the run and in the bundle
OrderKept ==
  /\ uploadedFrom # <<>> =>
       Embeds(uploadedData[1], RowsAsRecords(FileRows(uploadedFrom[1])))
  /\ pc # "idle" => Embeds(run.processedSequences, Cleaned(run.data))
  /\ processedResults # <<>> =>
       Embeds(processedResults[1].processedSequences,
              Cleaned(processedResults[1].originalData))

\* C16: the records that survive the validator and then the preprocessor
\* appear in the same relative order as their rows in the input: each output
\* is a subsequence of its input by position.
C16_OrderPreserved == []OrderKept

\* sixteen rows, four of them valid (rows 1, 4, 13, 16), were uploaded and
\* preprocessed: the second valid record was dropped, the others kept in order
C16_Witness ==
  /\ uploadedFrom = <<"many">> /\ pc = "preprocessed"
  /\ run.data = uploadedData[1] /\ Len(run.data) = 4
  /\ [k \in 1..4 |-> run.data[k].sequence_id]
       = << <<"V", "1">>, <<"V", "2">>, <<"V", "3">>, <<"V", "4">> >>
  /\ [k \in 1..Len(run.processedSequences) |-> run.processedSequences[k].sequence_id]
       = << <<"V", "1">>, <<"V", "3">>, <<"V", "4">> >>

\* the positions of the rows with an error, ascending
ErrorRows(rows) ==
  SelectSeq([k \in 1..Len(rows) |-> k], LAMBDA k : RowError(rows[k], k - 1) # <<>>)

\* every row's error, in row order
ErrorsOf(rows) ==
  [n \in 1..Len(ErrorRows(rows)) |-> RowError(rows[ErrorRows(rows)[n]], ErrorRows(rows)[n] - 1)[1]]

\* the records of all the rows without error, in row order
ValidRowsOf(rows) ==
  LET ok == SelectSeq([k \in 1..Len(rows) |-> k], LAMBDA k : RowError(rows[k], k - 1) = <<>>)
  IN [n \in 1..Len(ok) |-> RowRecord(rows[ok[n]])]

\* the error about the columns the file lacks, if it lacks any
SchemaErrorOf(rows) ==
  IF missingFields(rows) = <<>> THEN <<>>
  ELSE <<[row |-> 0, msg |-> "Missing required fields", fields |-> missingFields(rows)]>>

FirstTen(errors) == SubSeq(errors, 1, IF Len(errors) < 10 THEN Len(errors) ELSE 10)

\* the complete callback of processFile on a file with rows in error shows
\* the first ten of its errors, in row order
FirstTenErrorsShown ==
  \A p \in BagToSet(parses) :
    (/\ p.kind = "process" /\ ErrorsOf(FileRows(p.file)) # <<>>
     /\ uploadIsProcessing /\ ~uploadIsProcessing' /\ uploadProgress' = 100)
      => /\ validationErrors' = FirstTen(SchemaErrorOf(FileRows(p.file))
                                          \o ErrorsOf(FileRows(p.file)))
         /\ Len(validationErrors') <= 10

\* the records handed over from a file are those of all its rows without
\* error, whatever the number of errors before them
UploadUncapped ==
  uploadedFrom # <<>> => uploadedData = <<ValidRowsOf(FileRows(uploadedFrom[1]))>>

\* C17: the returned error list has at most 10 entries, the first 10 errors
\* in row order; the rows after the tenth error are still validated, so the
\* valid records are the same as without the cap.
C17_ErrorCap == [][FirstTenErrorsShown]_vars /\ []UploadUncapped

\* a file with twelve rows in error was validated and handed over: the list
\* holds the ten errors of rows 2..12, not those of rows 14 and 15, and the
\* valid rows 13 and 16 were handed over with rows 1 and 4
C17_Witness ==
  /\ Len(ErrorsOf(FileRows("many"))) = 12
  /\ Len(validateData(FileRows("many")).errors) = 10
  /\ validateData(FileRows("many")).errors[1].row = 2
  /\ validateData(FileRows("many")).errors[10].row = 12
  /\ uploadedFrom = <<"many">> /\ Len(uploadedData[1]) = 4
  /\ uploadedData[1][3].sequence_id = <<"V", "3">>
  /\ uploadedData[1][4].sequence_id = <<"V", "4">>

\* taxon and confidence (in thousandths) of the four sequences of ten bases
\* that pass the preprocessor, as JavaScript computes them
ExpectedClass(s) ==
  CASE s = <<"A", "A", "A", "A", "A", "A", "A", "A", "A", "A">> ->
         [taxon |-> "Bacteria;Proteobacteria;Gammaproteobacteria", confidence |-> 600]
    [] s = <<"A", "T", "C", "G", "A", "T", "C", "G", "T", "T">> ->
         [taxon |-> "Eukaryota;Stramenopiles;Bacillariophyta", confidence |-> 700]
    [] s = <<"A", "T", "C", "G", "A", "T", "C", "G", "A", "T">> ->
         [taxon |-> "Bacteria;Cyanobacteria;Oscillatoriophycideae", confidence |-> 990]
    [] s = <<"A", "T", "C", "G", "A", "T", "C", "G", "A", "G">> ->
         [taxon |-> "Bacteria;Actinobacteria;Actinobacteria", confidence |-> 720]

\* the classifier's results so far, result k for preprocessed record k
Classified == pc \in {"classify", "classified"}

\* two records of the batch with the same raw_sequence have the same taxon
\* and the same confidence
SameSequenceSameClass ==
  Classified =>
    \A j, k \in 1..Len(run.taxonomyResults) :
      run.processedSequences[j].raw_sequence = run.processedSequences[k].raw_sequence
        => /\ run.taxonomyResults[j].predicted_taxon = run.taxonomyResults[k].predicted_taxon
           /\ run.taxonomyResults[j].confidence = run.taxonomyResults[k].confidence

\* in every batch and at every position the result of a record is the one
\* fixed by its raw_sequence alone
ClassFixedBySequence ==
  Classified =>
    \A k \in 1..Len(run.taxonomyResults) :
      LET e == ExpectedClass(run.processedSequences[k].raw_sequence)
      IN /\ run.taxonomyResults[k].predicted_taxon = e.taxon
         /\ run.taxonomyResults[k].confidence = e.confidence

\* C18: classification is deterministic per sequence: two records with the
\* same raw_sequence, in one batch or in different batches and at any
\* positions, get the same predicted_taxon and the same confidence, whatever
\* the other records of the batch and their order.
C18_ClassificationDeterministic == [](SameSequenceSameClass /\ ClassFixedBySequence)

\* a batch of three: the first and the third record share a raw_sequence and
\* differ in id and read_count, another sequence stands between them
C18_Witness ==
  /\ pc = "classified" /\ Len(run.taxonomyResults) = 3
  /\ run.processedSequences[1].raw_sequence = run.processedSequences[3].raw_sequence
  /\ run.processedSequences[1].raw_sequence # run.processedSequences[2].raw_sequence
  /\ run.processedSequences[1].sequence_id # run.processedSequences[3].sequence_id
  /\ run.processedSequences[1].read_count # run.processedSequences[3].read_count
  /\ run.taxonomyResults[1].confidence = run.taxonomyResults[3].confidence
  /\ run.taxonomyResults[1].predicted_taxon = run.taxonomyResults[3].predicted_taxon
  /\ run.taxonomyResults[1].predicted_taxon # run.taxonomyResults[2].predicted_taxon

\* the sum of the read counts of the records: the total abundance
TotalAbundance(sequences) ==
  SumOver([k \in 1..Len(sequences) |-> sequences[k].read_count], 1..Len(sequences))

AllMetricsZero(m) ==
  /\ m.species_richness = 0
  /\ m.shannon_index = Num(0)
  /\ m.simpson_index = Num(0)
  /\ m.chao1_estimator = 0

AbundanceOf(taxon) ==
  SumOver([k \in 1..Len(run.processedSequences) |-> run.processedSequences[k].read_count],
          {k \in 1..Len(run.taxonomyResults) :
             run.taxonomyResults[k].predicted_taxon = taxon})

TaxaPresent ==
  {run.taxonomyResults[k].predicted_taxon : k \in 1..Len(run.taxonomyResults)}

TaxaWithAbundance(n) == Cardinality({t \in TaxaPresent : AbundanceOf(t) = n})

\* 2 * max(doubletons, 1)
Chao1Denominator == 2 * (IF TaxaWithAbundance(2) > 1 THEN TaxaWithAbundance(2) ELSE 1)

\* species_richness + singletons^2 / (2 * max(doubletons, 1)), times
\* Chao1Denominator
Chao1Numerator ==
  Cardinality(TaxaPresent) * Chao1Denominator
  + TaxaWithAbundance(1) * TaxaWithAbundance(1)

\* the value line 998 computes is the formula's, and the value returned is
\* that value to one decimal place: the nearest tenth, the formula itself
\* where it has one decimal
Chao1IsFormula ==
  pc = "computed" =>
    LET ab == speciesAbundance(run.processedSequences, run.taxonomyResults)
        reported == run.biodiversityMetrics[1].chao1_estimator
    IN /\ run.biodiversityMetrics[1].species_richness = Cardinality(TaxaPresent)
       /\ chao1_estimator(ab)[1] * Chao1Denominator
            = Chao1Numerator * chao1_estimator(ab)[2]
       /\ 2 * reported * Chao1Denominator - 20 * Chao1Numerator
            \in (1 - Chao1Denominator)..Chao1Denominator
       /\ (10 * Chao1Numerator) % Chao1Denominator = 0
            => reported * Chao1Denominator = 10 * Chao1Numerator

\* the abundance map is {TaxonA: 1, TaxonB: 2}
OneSingletonOneDoubleton ==
  /\ Cardinality(TaxaPresent) = 2
  /\ TaxaWithAbundance(1) = 1 /\ TaxaWithAbundance(2) = 1

\* for {TaxonA: 1, TaxonB: 2} the estimator is species_richness + 0.5
Chao1Scenario ==
  (pc = "computed" /\ OneSingletonOneDoubleton) =>
    /\ run.biodiversityMetrics[1].species_richness = 2
    /\ run.biodiversityMetrics[1].chao1_estimator
         = 10 * run.biodiversityMetrics[1].species_richness + 5

\* C20: chao1_estimator equals
\* species_richness + singletons^2 / (2 * max(doubletons, 1)), singletons and
\* doubletons being the numbers of taxa whose total abundance is exactly 1
\* and exactly 2; for the abundance map {TaxonA: 1, TaxonB: 2} this is
\* species_richness + 0.5.
C20_Chao1Formula == [](Chao1IsFormula /\ Chao1Scenario)

\* metrics were computed for two taxa of abundances 1 and 2, the second one
\* made of two records of one read each
C20_Witness ==
  /\ pc = "computed" /\ OneSingletonOneDoubleton
  /\ Len(run.processedSequences) = 3
  /\ \A k \in 1..3 : run.processedSequences[k].read_count = 1
  /\ run.biodiversityMetrics[1].chao1_estimator = 25

\* the positions of the records of a location
PositionsAt(data, location) ==
  {k \in 1..Len(data.processedSequences) :
     data.processedSequences[k].sample_location = location}

\* what the overall algorithm returns for the records of a location and
\* their classification results (result k is the result of record k)
MetricsOfLocation(data, location) ==
  calculateBiodiversity(AtPositions(data.processedSequences, PositionsAt(data, location)),
                        AtPositions(data.taxonomyResults, PositionsAt(data, location)))

\* column c of the metrics table holds richness, Shannon and Simpson of the
\* overall algorithm on the location, and its sequence and read totals
LocationColumnMatches(table, data, c) ==
  LET location == locationsOf(data)[c]
      m == MetricsOfLocation(data, location)
      seqs == AtPositions(data.processedSequences, PositionsAt(data, location))
  IN /\ table[1][c + 2] = location
     /\ table[2][c + 2] = m.species_richness
     /\ table[3][c + 2] = m.shannon_index
     /\ table[4][c + 2] = m.simpson_index
     /\ table[6][c + 2] = Len(seqs)
     /\ table[7][c + 2] = TotalAbundance(seqs)

\* column c holds a Chao1 value, that of the overall algorithm on the location
LocationChao1Matches(table, data, c) ==
  /\ table[5][c + 2] # <<>>
  /\ table[5][c + 2] = MetricsOfLocation(data, locationsOf(data)[c]).chao1_estimator

\* C21: the per-location metrics table gives, for every location, each of
\* the four metrics plus total_sequences and total_reads, and each value
\* equals what the overall metrics algorithm returns when run on only that
\* location's records and their classification results.
C21_LocationMetricsMatchOverall ==
  exported.biodiversityData # <<>> =>
    /\ Len(exported.biodiversityData[1]) = 7
    /\ \A c \in 1..Len(locationsOf(processedData[1])) :
         /\ LocationColumnMatches(exported.biodiversityData[1], processedData[1], c)
         /\ LocationChao1Matches(exported.biodiversityData[1], processedData[1], c)

\* the record joined to a result by sequence_id: the first one with that id
JoinedRecord(data, result) ==
  data.processedSequences[
    CHOOSE k \in 1..Len(data.processedSequences) :
      /\ data.processedSequences[k].sequence_id = result.sequence_id
      /\ \A j \in 1..(k - 1) :
           data.processedSequences[j].sequence_id # result.sequence_id]

\* row k + 1 of the table is the row of result k: its own four fields, then
\* the location, depth and read_count of the joined record, as values
TaxonomyRowJoins(table, data, k) ==
  LET result == data.taxonomyResults[k]
      row == table[k + 1]
  IN /\ Len(row) = 7
     /\ row[1] = result.sequence_id
     /\ row[2] = result.predicted_taxon
     /\ row[3] = result.confidence
     /\ row[4] = result.cluster_id
     /\ row[5] = JoinedRecord(data, result).sample_location
     /\ row[6] = <<JoinedRecord(data, result).depth>>
     /\ row[7] = <<JoinedRecord(data, result).read_count>>

\* C22: the classification table has one row per classification result, in
\* result order, [sequence_id, predicted_taxon, confidence, cluster_id,
\* sample_location, depth, read_count], the last three being the values of
\* the record joined by sequence_id, for every valid value including depth
\* 0; cluster_id is blank exactly when it is unset.
C22_TaxonomyTableJoins ==
  exported.taxonomyData # <<>> =>
    /\ Len(exported.taxonomyData[1]) = Len(processedData[1].taxonomyResults) + 1
    /\ \A k \in 1..Len(processedData[1].taxonomyResults) :
         TaxonomyRowJoins(exported.taxonomyData[1], processedData[1], k)

\* the four metrics of the records the filters keep and of their results,
\* as the cards print them
MetricsOfFiltered(data) ==
  LET kept == filteredPositions(data, dashboard.selectedLocation,
                                dashboard.selectedDepthRange)
      m == calculateBiodiversity(AtPositions(data.processedSequences, kept),
                                 AtPositions(data.taxonomyResults, kept))
  IN [species_richness |-> m.species_richness,
      shannon_index |-> m.shannon_index,
      simpson_index |-> m.simpson_index,
      chao1_estimator |-> (m.chao1_estimator + 5) \div 10]

\* the cards show the metrics of the currently filtered records
CardsFollowFilters ==
  (pageStep = "analyze" /\ processedData # <<>>)
    => metricCards(processedData[1]) = MetricsOfFiltered(processedData[1])

\* a filter selection leaves the bundle of the run as it was
FiltersKeepBundle ==
  dashboard' # dashboard => processedData' = processedData

\* C23: biodiversity metrics are recomputed, not mutated, when the filtered
\* set changes: after any sequence of location and depth selections the four
\* metrics shown are those of the currently filtered records, and the
\* metrics object computed by the run is left unchanged.
C23_MetricsRecomputedOnFilter == []CardsFollowFilters /\ [][FiltersKeepBundle]_vars

\* the depth ranges offered other than "all" that select record k
RangesSelecting(data, k) ==
  {j \in 2..Len(depthRanges(data)) : k \in filteredPositions(data, all, depthRanges(data)[j])}

\* the number of sequences shown once range j is selected, all locations
CountInRange(data, j) == Cardinality(filteredPositions(data, all, depthRanges(data)[j]))

\* C30: the depth ranges offered by the dashboard partition the processed
\* records: each processed record, one at depth 0 and one at the maximum
\* depth included, is selected by exactly one range other than "all", so the
\* per-range sequence counts add up to the count shown for "all".
C30_DepthRangesPartition ==
  (pageStep = "analyze" /\ processedData # <<>>) =>
    /\ \A k \in 1..Len(processedData[1].processedSequences) :
         Cardinality(RangesSelecting(processedData[1], k)) = 1
    /\ SumOver([j \in 2..Len(depthRanges(processedData[1])) |->
                  CountInRange(processedData[1], j)],
               2..Len(depthRanges(processedData[1])))
         = Cardinality(filteredPositions(processedData[1], all, all))


---------------------------------------------------------------------------
(* The workflow of the page *)

\* the place of a step in the step indicator of Index
StepRank(step) ==
  CASE step = "upload" -> 1 [] step = "process" -> 2 [] step = "analyze" -> 3
    [] step = "export" -> 4

\* the page stays on its step or moves to the next one
StepForward == pageStep' = pageStep \/ StepRank(pageStep') = StepRank(pageStep) + 1

ExportNeverShown == pageStep # "export"

\* C24: the page workflow moves only forward through upload, process, analyze,
\* export, one step at a time, and once processing has completed (the bundle
\* is stored) the Export Results step is eventually shown
C24_WorkflowForwardToExport ==
  /\ [][StepForward]_vars
  /\ (processedData # <<>>) ~> (pageStep = "export")

---------------------------------------------------------------------------
(* The rules of the validator, one by one *)

\* row passes rule k of: sequence_id, raw_sequence, read_count,
\* sample_location, depth
PassesRule(k, row) ==
  CASE k = 1 -> /\ row.sequence_id # undefined
                /\ Trim(row.sequence_id) # <<>>
    [] k = 2 -> /\ row.raw_sequence # undefined
                /\ Trim(row.raw_sequence) # <<>>
                /\ \A i \in 1..Len(Trim(row.raw_sequence)) :
                     Trim(row.raw_sequence)[i]
                       \in {"A", "T", "C", "G", "N", "a", "t", "c", "g", "n"}
    [] k = 3 -> /\ ~parseInt(row.read_count).isNaN
                /\ parseInt(row.read_count).value >= 1
    [] k = 4 -> /\ row.sample_location # undefined
                /\ Trim(row.sample_location) # <<>>
    [] k = 5 -> /\ ~parseFloat(row.depth).isNaN
                /\ parseFloat(row.depth).value >= 0

RuleMessage ==
  <<"Missing sequence_id",
    "Invalid DNA sequence (should contain only A, T, C, G, N)",
    "Invalid read_count (should be a positive integer)",
    "Missing sample_location",
    "Invalid depth (should be a non-negative number)">>

FailedRules(row) == {k \in 1..5 : ~PassesRule(k, row)}

FirstFailed(row) == CHOOSE k \in FailedRules(row) : \A j \in FailedRules(row) : k <= j

\* the positions of the rows that fail a rule, ascending
FailingRows(rows) ==
  SelectSeq([k \in 1..Len(rows) |-> k], LAMBDA k : FailedRules(rows[k]) # {})

\* the required fields the first row has no value for, in the order of
\* REQUIRED_FIELDS
LackedFields(rows) ==
  SelectSeq(REQUIRED_FIELDS, LAMBDA f : rows[1][f] = undefined)

\* one error for the lacked fields if there are any, then one error per
\* failing row, for the first rule it fails
ExpectedErrors(rows) ==
  (IF LackedFields(rows) = <<>> THEN <<>>
   ELSE <<[row |-> 0, msg |-> "Missing required fields", fields |-> LackedFields(rows)]>>)
  \o [n \in 1..Len(FailingRows(rows)) |->
        [row |-> FailingRows(rows)[n],
         msg |-> RuleMessage[FirstFailed(rows[FailingRows(rows)[n]])],
         fields |-> <<>>]]

\* the records of the rows that pass all five rules, in row order
ExpectedValid(rows) ==
  LET ok == SelectSeq([k \in 1..Len(rows) |-> k], LAMBDA k : FailedRules(rows[k]) = {})
  IN [n \in 1..Len(ok) |->
        [sequence_id |-> Trim(rows[ok[n]].sequence_id),
         raw_sequence |-> ToUpperCase(Trim(rows[ok[n]].raw_sequence)),
         read_count |-> parseInt(rows[ok[n]].read_count).value,
         sample_location |-> Trim(rows[ok[n]].sample_location),
         depth |-> parseFloat(rows[ok[n]].depth).value]]

\* the complete callback of processFile on a file with rows: the errors shown
\* are the first ten of the expected ones, and a file without any is offered
\* for confirmation with its first five records
RowsJudgedInOrder ==
  \A p \in BagToSet(parses) :
    (/\ p.kind = "process" /\ FileRows(p.file) # <<>>
     /\ uploadIsProcessing /\ ~uploadIsProcessing' /\ uploadProgress' = 100)
      => IF ExpectedErrors(FileRows(p.file)) = <<>>
         THEN /\ validationErrors' = <<>>
              /\ previewData' = <<firstFive(ExpectedValid(FileRows(p.file)))>>
         ELSE /\ validationErrors' = FirstTen(ExpectedErrors(FileRows(p.file)))
              /\ previewData' = previewData

\* the records handed over are those of the rows that pass all five rules
ValidIffAllRulesPass ==
  uploadedFrom # <<>> => uploadedData = <<ExpectedValid(FileRows(uploadedFrom[1]))>>

\* C25: the rules are checked per row in the order sequence_id, raw_sequence,
\* read_count, sample_location, depth; a row is in the valid output if and
\* only if it passes all five; a failing row adds exactly one error, that of
\* the first rule it fails; the error about missing required fields is
\* recorded once, before the errors of the rows, which are still validated.
C25_RulesInFixedOrder == [][RowsJudgedInOrder]_vars /\ []ValidIffAllRulesPass

\* the file without the depth column was validated: one error names depth,
\* then the first row fails rule 5 only, the second fails all five and
\* reports sequence_id, the third fails rules 3, 4, 5 and reports read_count
C25_Witness ==
  /\ pageStep = "upload" /\ fileInput = <<"nodepth">> /\ ~uploadIsProcessing
  /\ FailedRules(FileRows("nodepth")[2]) = 1..5
  /\ FailedRules(FileRows("nodepth")[3]) = {3, 4, 5}
  /\ validationErrors =
       <<[row |-> 0, msg |-> "Missing required fields", fields |-> <<"depth">>],
         Err(1, "Invalid depth (should be a non-negative number)"),
         Err(2, "Missing sequence_id"),
         Err(3, "Invalid read_count (should be a positive integer)")>>

---------------------------------------------------------------------------
(* The cluster ids *)

\* the positions of the results of confidence below 0.7, ascending
LowConfidence(results) ==
  SelectSeq([k \in 1..Len(results) |-> k], LAMBDA k : results[k].confidence < 700)

\* the cluster ids written on results
IdsInUse(results) ==
  {results[k].cluster_id[1] : k \in {j \in 1..Len(results) : results[j].cluster_id # <<>>}}

\* the results of cluster id c
Group(results, c) == {k \in 1..Len(results) : results[k].cluster_id = <<c>>}

\* the first done low-confidence results carry (k mod 3) + 1, k counting
\* them from 0; the ids in use are 1..min(done, 3), each on some result
AssignedRoundRobin(results, done) ==
  /\ \A n \in 1..Len(LowConfidence(results)) :
       results[LowConfidence(results)[n]].cluster_id =
         IF n <= done THEN <<((n - 1) % 3) + 1>> ELSE <<>>
  /\ \A c \in IdsInUse(results) : c \in Nat /\ c >= 1
  /\ IdsInUse(results) = 1..(IF done < 3 THEN done ELSE 3)
  /\ \A c \in IdsInUse(results) : Group(results, c) # {}

\* results without their cluster ids
WithoutClusterIds(results) ==
  [k \in 1..Len(results) |->
     [sequence_id |-> results[k].sequence_id,
      predicted_taxon |-> results[k].predicted_taxon,
      confidence |-> results[k].confidence]]

\* the Clustering stage keeps the list of results but for cluster_id
ClusteringKeepsResults ==
  (pc \in {"classified", "cluster"} /\ pc' \in {"cluster", "clustered"})
    => WithoutClusterIds(run'.taxonomyResults) = WithoutClusterIds(run.taxonomyResults)

ClustersAssigned ==
  /\ pc = "cluster" => AssignedRoundRobin(run.taxonomyResults, run.i)
  /\ pc \in {"clustered", "metrics0", "metrics25", "metrics50", "metrics75", "computed"}
       => AssignedRoundRobin(run.taxonomyResults, Len(LowConfidence(run.taxonomyResults)))
  /\ processedResults # <<>> =>
       AssignedRoundRobin(processedResults[1].taxonomyResults,
                          Len(LowConfidence(processedResults[1].taxonomyResults)))
  /\ processedData # <<>> =>
       AssignedRoundRobin(processedData[1].taxonomyResults,
                          Len(LowConfidence(processedData[1].taxonomyResults)))

\* C26: the k-th result (from 0, in result order) of confidence below 0.7
\* receives cluster id (k mod 3) + 1: every id is an integer >= 1, the ids
\* in use are exactly 1..min(n, 3) for n such results, every group has a
\* member, and clustering changes no sequence_id, predicted_taxon, confidence
\* or position of a result.
C26_ClusterAssignment == []ClustersAssigned /\ [][ClusteringKeepsResults]_vars

\* seven results, five of confidence 0.6 at positions 1, 3, 4, 5, 7, were
\* clustered: the ids run 1, 2, 3, 1, 2 and positions 2 and 6 have none
C26_Witness ==
  /\ pc = "clustered" /\ uploadedFrom = <<"unknowns">>
  /\ [k \in 1..Len(run.taxonomyResults) |-> run.taxonomyResults[k].cluster_id]
       = << <<1>>, <<>>, <<2>>, <<3>>, <<1>>, <<>>, <<2>> >>
  /\ [k \in 1..Len(run.taxonomyResults) |-> run.taxonomyResults[k].sequence_id[2]]
       = <<"1", "2", "3", "4", "5", "6", "7">>

---------------------------------------------------------------------------
(* One run at a time *)

\* startProcessing is between its first and its last statement
RunInProgress == pc # "idle"

\* the Start AI Analysis card is rendered
StartAvailable ==
  pageStep = "process" /\ uploadedData # <<>> /\ ~isProcessing /\ processedResults = <<>>

\* isProcessing is set exactly while a run is in progress, so the card is
\* not rendered during a run nor after a result
StartOnlyWhenIdle ==
  /\ isProcessing <=> RunInProgress
  /\ StartAvailable => ~RunInProgress /\ processedResults = <<>> /\ timers = <<>>

\* a run begins only from a state where Start is available
RunsBeginAtStart == (pc' = "preprocess" /\ pc # "preprocess") => StartAvailable

\* a stage that is processing has completed stages before it and pending
\* stages after it
OneStageProcessing ==
  /\ Cardinality({j \in 1..4 : steps[j].status = "processing"}) <= 1
  /\ \A j \in 1..4 :
       steps[j].status = "processing" =>
         /\ \A i \in 1..(j - 1) : steps[i].status = "completed"
         /\ \A i \in (j + 1)..4 : steps[i].status = "pending"

\* C27: runs never overlap: Start is available only while no run is in
\* progress and no result has been produced, so whatever the Start clicks,
\* failures and completions, at most one stage has status processing, every
\* stage before it is completed and every stage after it is pending.
C27_RunsNeverOverlap ==
  /\ [](StartOnlyWhenIdle /\ OneStageProcessing)
  /\ [][RunsBeginAtStart]_vars

\* a second run, started after the first one failed, is in its second stage:
\* classification is the one stage processing
C27_Witness ==
  /\ toast # <<>> /\ toast[1].title = "Processing Failed"
  /\ pc = "classify" /\ isProcessing
  /\ steps[1].status = "completed" /\ steps[2].status = "processing"
  /\ steps[3].status = "pending" /\ steps[4].status = "pending"

---------------------------------------------------------------------------
(* What Process Dataset confirms *)

\* the complete callback of processFile has shown the errors of a file: no
\* preview is left to confirm
FailedUploadClearsPreview ==
  (uploadIsProcessing /\ ~uploadIsProcessing' /\ validationErrors' # <<>>)
    => previewData' = <<>>

\* a click on Process Dataset parses a file that validated without error
\* and whose records are the ones previewed
ConfirmParsesPreviewedFile ==
  \A f \in FileNames :
    parses' = parses (+) SetToBag({Parse("confirm", f)})
      => /\ Validated[f].isValid
         /\ previewData = <<firstFive(Validated[f].validData)>>

\* C28: Process Dataset is available only when the file uploaded last
\* (selected or dropped) validated with no errors, and the records handed
\* over are the valid records of that same file; an upload that fails
\* validation after a successful one leaves nothing to confirm.
C28_ConfirmLatestValidFile ==
  [][FailedUploadClearsPreview /\ ConfirmParsesPreviewedFile]_vars

---------------------------------------------------------------------------
(* Chao1 in a completed run *)

\* the summed read_count of the results of taxon t in a bundle, each result
\* joined to the first record of its sequence_id
ReadsOfTaxon(b, t) ==
  SumOver([k \in 1..Len(b.taxonomyResults) |->
             find(b.processedSequences, b.taxonomyResults[k].sequence_id)[1].read_count],
          {k \in 1..Len(b.taxonomyResults) : b.taxonomyResults[k].predicted_taxon = t})

\* no record of fewer than 5 reads, no taxon of abundance below 5, and
\* chao1_estimator (in tenths) is species_richness
Chao1IsRichness(b) ==
  /\ \A k \in 1..Len(b.processedSequences) : b.processedSequences[k].read_count >= 5
  /\ \A k \in 1..Len(b.taxonomyResults) :
       ReadsOfTaxon(b, b.taxonomyResults[k].predicted_taxon) >= 5
  /\ b.biodiversityMetrics.chao1_estimator = 10 * b.biodiversityMetrics.species_richness

\* C29: in every run that reaches Complete chao1_estimator equals
\* species_richness: every preprocessed record has read_count >= 5, so every
\* taxon's abundance is at least 5 and no taxon is a singleton or doubleton.
C29_Chao1EqualsRichness ==
  /\ processedResults # <<>> => Chao1IsRichness(processedResults[1])
  /\ \A n \in 1..Len(timers) : Chao1IsRichness(timers[n])
  /\ processedData # <<>> => Chao1IsRichness(processedData[1])

\* a run over eight records, one of them with a single read, is complete:
\* the record was dropped, three taxa are left and chao1_estimator is 3
C29_Witness ==
  /\ uploadedFrom = <<"unknowns">> /\ processedResults # <<>>
  /\ \E k \in 1..Len(processedResults[1].originalData) :
       processedResults[1].originalData[k].read_count = 1
  /\ Len(processedResults[1].processedSequences) = 7
  /\ processedResults[1].biodiversityMetrics.species_richness = 3
  /\ processedResults[1].biodiversityMetrics.chao1_estimator = 30

=============================================================================
